---------------------------- MODULE Spec2Model ----------------------------
(***************************************************************************)
(* State-machine model of the Rbac class of @marianmeres/rbac              *)
(* (src/src/mod.ts): the entity store (roles, groups), the rule map, the   *)
(* resolution engine (getPermissions and friends), the ABAC decision       *)
(* procedure (can) and the dump / restore serialization.                   *)
(*                                                                         *)
(* A JS Map<string, X> is modelled as a TLA+ function whose DOMAIN is the   *)
(* set of keys; a JS Set<string> as a TLA+ set; a JS array as a sequence.   *)
(* Iteration order of a Map or Set (insertion order) is not kept: no       *)
(* modelled result depends on it except the order of listings and of the   *)
(* arrays in a dump.                                                       *)
(* The history variables `last` and `pre` record the last call (operation, *)
(* arguments, returned value or thrown error, rule invocations) and the    *)
(* store as it was when that call started.                                 *)
(*                                                                         *)
(* Spec     explores the entity store, the resolution engine and the       *)
(*          serialization over one role name and two group names;          *)
(* SpecAbac explores the rule map and can() over one role and one group.   *)
(***************************************************************************)
EXTENDS Integers, Sequences, FiniteSets, TLC

VARIABLES roles, groups, rules, last, pre

vars == <<roles, groups, rules, last, pre>>

-----------------------------------------------------------------------------
(* Bounds and input universes                                              *)

\* most array elements passed to one call: the length of `permissions`, or
\* of `permissions` and `groupNames` together for addRole
MaxListed == 2

\* role and group names of the entity-store specification (Spec); the group
\* name "__proto__" is the one string that a plain JS object treats specially
RoleNames == {"editor"}

GroupNames == {"editors", "__proto__"}

\* role and group names of the decision-procedure specification (SpecAbac)
AbacRoleNames == {"author"}

AbacGroupNames == {"authors"}

\* the roles of the store in which one role is removed next to another
PairRoleNames == {"editor", "author"}

\* the groups of the store in which one entity changes next to the others
PairGroupNames == {"editors", "authors"}

\* the permission granted to roles directly in that store
DirectPerms == {"article:read"}

\* a name used for a role and for a group at once (the empty string, as in
\* the tests), and the groups of that store
SharedNames == {""}

SharedGroupNames == SharedNames \cup {"editors"}

\* permission tokens
Perms == {"article:read", "article:*"}

\* identifiers carried by subject.id and resource.authorId
Ids == {"u1", "u2"}

\* the "no value" (undefined) of an omitted optional argument or field
Absent == [absent |-> TRUE]

\* subject / resource / context attribute bags handed to can()
Subjects(names) == [role : names, id : Ids]

Resources == {Absent} \cup [authorId : Ids]

Contexts == {Absent, [currentHour |-> 10]}

\* rule functions registered by callers (as in the tests)
RuleFns == {"allowAll", "isOwner", "throws"}

\* the rule of the store whose queries and dumps are examined
QueryRuleFns == {"isOwner"}

\* JS runtimes the package supports
Runtimes == {"deno", "node"}

\* most array elements in one entry of a dump handed to restore()
MaxDumpListed == 1

\* names and permissions in the dumps handed to restore()
DumpRoleNames == {"editor", "author"}

DumpGroupNames == {"editors", "authors"}

DumpPerms == {"article:read"}

RECURSIVE SeqsUpTo(_, _)
SeqsUpTo(S, n) ==
    IF n = 0 THEN {<<>>}
    ELSE LET shorter == SeqsUpTo(S, n - 1)
         IN  shorter \cup {Append(s, x) : s \in shorter, x \in S}

PermLists == SeqsUpTo(Perms, MaxListed)

\* the groupNames arrays that may accompany the array `permissions`
GroupNameLists(names, permissions) == SeqsUpTo(names, MaxListed - Len(permissions))

Range(s) == {s[i] : i \in 1..Len(s)}

-----------------------------------------------------------------------------
(* Map primitives                                                          *)

EmptyMap == <<>>

MapSet(m, k, v) == [x \in (DOMAIN m) \cup {k} |-> IF x = k THEN v ELSE m[x]]

MapDelete(m, k) == [x \in (DOMAIN m) \ {k} |-> m[x]]

-----------------------------------------------------------------------------
(* Errors                                                                  *)

\* a thrown error is its name and its message (a tuple of message parts)
NoError == [thrown |-> FALSE, name |-> "", message |-> <<>>]

\* new Error(`Group '${groupName}' does not exist`)
GroupDoesNotExist(groupName) ==
    [thrown |-> TRUE, name |-> "Error",
     message |-> <<"Group '", groupName, "' does not exist">>]

-----------------------------------------------------------------------------
(* Entity store: pure results of the mutators                              *)

NewRole == [permissions |-> {}, memberOf |-> {}]

NewGroup == [permissions |-> {}]

\* variant: the role entry is always set to a new empty role
initRole_AlwaysNew(rs, name) == MapSet(rs, name, NewRole)

initRole(rs, name) == IF name \in DOMAIN rs THEN rs ELSE MapSet(rs, name, NewRole)

initGroup(gs, name) == IF name \in DOMAIN gs THEN gs ELSE MapSet(gs, name, NewGroup)

\* index of the first entry of groupNames that is not a group, or Len + 1
FirstMissing(gs, groupNames) ==
    LET missing == {i \in 1..Len(groupNames) : groupNames[i] \notin DOMAIN gs}
    IN  IF missing = {} THEN Len(groupNames) + 1
        ELSE CHOOSE i \in missing : \A j \in missing : i <= j

\* (mutant) a group name that is not a group is skipped instead of throwing
addRoleResult_SkipsMissing(rs, gs, name, permissions, groupNames) ==
    LET rs0  == initRole(rs, name)
        role == [permissions |-> rs0[name].permissions \cup Range(permissions),
                 memberOf    |-> rs0[name].memberOf
                                   \cup (Range(groupNames) \cap DOMAIN gs)]
    IN  [roles |-> MapSet(rs0, name, role), err |-> NoError]

\* variant: a failing call leaves the role map as it found it
addRoleResult_RollsBack(rs, gs, name, permissions, groupNames) ==
    LET rs0  == initRole(rs, name)
        stop == FirstMissing(gs, groupNames)
        role == [permissions |-> rs0[name].permissions \cup Range(permissions),
                 memberOf    |-> rs0[name].memberOf \cup Range(groupNames)]
    IN  IF stop > Len(groupNames)
        THEN [roles |-> MapSet(rs0, name, role), err |-> NoError]
        ELSE [roles |-> rs, err |-> GroupDoesNotExist(groupNames[stop])]

\* addRole: the role is initialised, the permissions are added, then the
\* group names are walked in order; the walk stops at the first missing one
addRoleResult(rs, gs, name, permissions, groupNames) ==
    LET rs0  == initRole(rs, name)
        stop == FirstMissing(gs, groupNames)
        role == [permissions |-> rs0[name].permissions \cup Range(permissions),
                 memberOf    |-> rs0[name].memberOf
                                   \cup {groupNames[i] : i \in 1..(stop - 1)}]
    IN  [roles |-> MapSet(rs0, name, role),
         err   |-> IF stop > Len(groupNames) THEN NoError
                   ELSE GroupDoesNotExist(groupNames[stop])]

\* variant: the listed permissions replace the ones the group holds
addGroupResult_Replaces(gs, name, permissions) ==
    MapSet(gs, name, [permissions |-> Range(permissions)])

addGroupResult(gs, name, permissions) ==
    LET gs0 == initGroup(gs, name)
    IN  MapSet(gs0, name,
               [permissions |-> gs0[name].permissions \cup Range(permissions)])

\* variant: every permission of the role is removed
removeRolePermissionsResult_Clears(rs, name, permissions) ==
    IF name \in DOMAIN rs
    THEN MapSet(rs, name, [rs[name] EXCEPT !.permissions = {}])
    ELSE rs

removeRolePermissionsResult(rs, name, permissions) ==
    IF name \in DOMAIN rs
    THEN MapSet(rs, name, [rs[name] EXCEPT !.permissions = @ \ Range(permissions)])
    ELSE rs

\* variant: the role loses its permissions and keeps its memberships
removeRoleResult_KeepsMemberships(rs, name) ==
    IF name \in DOMAIN rs
    THEN MapSet(rs, name, [rs[name] EXCEPT !.permissions = {}])
    ELSE rs

\* variant: the role map is cleared
removeRoleResult_ClearsAll(rs, name) == EmptyMap

removeRoleResult(rs, name) == MapDelete(rs, name)

removeGroupPermissionsResult(gs, name, permissions) ==
    IF name \in DOMAIN gs
    THEN MapSet(gs, name, [gs[name] EXCEPT !.permissions = @ \ Range(permissions)])
    ELSE gs

\* (mutant) the group is deleted without cleaning up the roles
removeGroupResult_NoCascade(rs, gs, name) ==
    [groups |-> MapDelete(gs, name), roles |-> rs]

\* variant: one namespace, the role of the same name goes with the group
removeGroupResult_OneNamespace(rs, gs, name) ==
    [groups |-> MapDelete(gs, name),
     roles  |-> [r \in DOMAIN rs \ {name} |->
                    [rs[r] EXCEPT !.memberOf = @ \ {name}]]]

\* removeGroup: the group is deleted, then its name is deleted from the
\* memberOf set of every role
removeGroupResult(rs, gs, name) ==
    [groups |-> MapDelete(gs, name),
     roles  |-> [r \in DOMAIN rs |-> [rs[r] EXCEPT !.memberOf = @ \ {name}]]]

\* (mutant) the role is initialised before the group is checked
addRoleToGroupResult_InitFirst(rs, gs, roleName, groupName) ==
    LET rs0 == initRole(rs, roleName)
    IN  IF groupName \notin DOMAIN gs
        THEN [roles |-> rs0, err |-> GroupDoesNotExist(groupName)]
        ELSE [roles |-> MapSet(rs0, roleName,
                               [rs0[roleName] EXCEPT !.memberOf = @ \cup {groupName}]),
              err   |-> NoError]

addRoleToGroupResult(rs, gs, roleName, groupName) ==
    IF groupName \notin DOMAIN gs
    THEN [roles |-> rs, err |-> GroupDoesNotExist(groupName)]
    ELSE LET rs0 == initRole(rs, roleName)
         IN  [roles |-> MapSet(rs0, roleName,
                               [rs0[roleName] EXCEPT !.memberOf = @ \cup {groupName}]),
              err   |-> NoError]

\* variant: the role is taken out of every group
removeRoleFromGroupResult_LeavesAll(rs, roleName, groupName) ==
    IF roleName \in DOMAIN rs
    THEN MapSet(rs, roleName, [rs[roleName] EXCEPT !.memberOf = {}])
    ELSE rs

removeRoleFromGroupResult(rs, roleName, groupName) ==
    IF roleName \in DOMAIN rs
    THEN MapSet(rs, roleName, [rs[roleName] EXCEPT !.memberOf = @ \ {groupName}])
    ELSE rs

-----------------------------------------------------------------------------
(* Resolution engine                                                       *)

\* the for-of loop over role.memberOf: a group that is no longer in the
\* group map is skipped
RECURSIVE CollectGroups(_, _, _)
CollectGroups(gs, memberOf, out) ==
    IF memberOf = {} THEN out
    ELSE LET groupName == CHOOSE g \in memberOf : TRUE
         IN  CollectGroups(gs, memberOf \ {groupName},
                           IF groupName \in DOMAIN gs
                           THEN out \cup gs[groupName].permissions
                           ELSE out)

\* (mutant) the final union with the role's own permissions is lost
getPermissions_GroupsOnly(rs, gs, roleName) ==
    IF roleName \notin DOMAIN rs THEN {}
    ELSE CollectGroups(gs, rs[roleName].memberOf, {})

getPermissions(rs, gs, roleName) ==
    IF roleName \notin DOMAIN rs THEN {}
    ELSE CollectGroups(gs, rs[roleName].memberOf, {}) \cup rs[roleName].permissions

\* a Set object that no other reference points to
NewSet == [object |-> "new"]

\* variant: with nothing to union, the role's own Set is handed out
getPermissionsObject_ReusesRoleSet(rs, gs, roleName) ==
    IF roleName \notin DOMAIN rs THEN NewSet
    ELSE IF CollectGroups(gs, rs[roleName].memberOf, {}) = {}
    THEN [object |-> "role", name |-> roleName]
    ELSE NewSet

\* which Set object getPermissions hands to the caller: `out`, made by
\* new Set(), for a missing role; else the result of out.union(...), and
\* Set.prototype.union always makes a new Set
getPermissionsObject(rs, gs, roleName) ==
    IF roleName \notin DOMAIN rs THEN NewSet
    ELSE NewSet

\* variant: a held token ending in ":*" matches every permission of its entity
hasPermission_Wildcard(rs, gs, roleName, permission) ==
    LET all == getPermissions(rs, gs, roleName)
    IN  \/ permission \in all
        \/ "article:*" \in all /\ permission = "article:read"

hasPermission(rs, gs, roleName, permission) ==
    permission \in getPermissions(rs, gs, roleName)

-----------------------------------------------------------------------------
(* ABAC decision procedure                                                 *)

\* what a registered rule function does with (subject, resource, context):
\*   allowAll : () => true
\*   isOwner  : (subject, resource) => resource?.authorId === subject.id
\*   throws   : a rule that raises
RuleThrew == [thrown |-> TRUE, name |-> "Error", message |-> <<"rule error">>]

ApplyRule(fn, subject, resource, context) ==
    CASE fn = "allowAll" -> [err |-> NoError, value |-> TRUE]
      [] fn = "isOwner"  -> [err |-> NoError,
                             value |-> /\ "authorId" \in DOMAIN resource
                                       /\ resource.authorId = subject.id]
      [] fn = "throws"   -> [err |-> RuleThrew, value |-> Absent]

RuleCall(fn, subject, resource, context) ==
    [fn |-> fn, subject |-> subject, resource |-> resource, context |-> context]

\* (mutant) a registered rule decides alone, the RBAC gate only applies
\* when there is no rule
canResult_RuleOverrides(rs, gs, rl, subject, permission, resource, context) ==
    IF permission \in DOMAIN rl
    THEN LET out == ApplyRule(rl[permission], subject, resource, context)
         IN  [ret |-> out.value, err |-> out.err,
              ruleCalls |-> <<RuleCall(rl[permission], subject, resource, context)>>]
    ELSE [ret |-> hasPermission(rs, gs, subject.role, permission), err |-> NoError,
          ruleCalls |-> <<>>]

\* (mutant) the rule is evaluated before the RBAC gate is consulted
canResult_RuleFirst(rs, gs, rl, subject, permission, resource, context) ==
    IF permission \notin DOMAIN rl
    THEN [ret |-> hasPermission(rs, gs, subject.role, permission), err |-> NoError,
          ruleCalls |-> <<>>]
    ELSE LET out == ApplyRule(rl[permission], subject, resource, context)
             calls == <<RuleCall(rl[permission], subject, resource, context)>>
         IN  IF out.err.thrown
             THEN [ret |-> out.value, err |-> out.err, ruleCalls |-> calls]
             ELSE [ret |-> hasPermission(rs, gs, subject.role, permission) /\ out.value,
                   err |-> NoError, ruleCalls |-> calls]

\* (mutant) without a rule the decision falls through to the resource check
\* of a default rule instead of returning true
canResult_DefaultRule(rs, gs, rl, subject, permission, resource, context) ==
    IF ~hasPermission(rs, gs, subject.role, permission)
    THEN [ret |-> FALSE, err |-> NoError, ruleCalls |-> <<>>]
    ELSE IF permission \notin DOMAIN rl
    THEN [ret |-> resource # Absent, err |-> NoError, ruleCalls |-> <<>>]
    ELSE LET out == ApplyRule(rl[permission], subject, resource, context)
         IN  [ret |-> out.value, err |-> out.err,
              ruleCalls |-> <<RuleCall(rl[permission], subject, resource, context)>>]

\* (mutant) the rule is invoked with the subject only
canResult_SubjectOnly(rs, gs, rl, subject, permission, resource, context) ==
    IF ~hasPermission(rs, gs, subject.role, permission)
    THEN [ret |-> FALSE, err |-> NoError, ruleCalls |-> <<>>]
    ELSE IF permission \notin DOMAIN rl
    THEN [ret |-> TRUE, err |-> NoError, ruleCalls |-> <<>>]
    ELSE LET out == ApplyRule(rl[permission], subject, Absent, Absent)
         IN  [ret |-> out.value, err |-> out.err,
              ruleCalls |-> <<RuleCall(rl[permission], subject, Absent, Absent)>>]

\* variant: the permissions of the role are read without checking that the
\* role exists
canResult_NoRoleCheck(rs, gs, rl, subject, permission, resource, context) ==
    IF subject.role \notin DOMAIN rs
    THEN [ret |-> FALSE,
          err |-> [thrown |-> TRUE, name |-> "TypeError",
                   message |-> <<"Cannot read properties of undefined">>],
          ruleCalls |-> <<>>]
    ELSE IF ~hasPermission(rs, gs, subject.role, permission)
    THEN [ret |-> FALSE, err |-> NoError, ruleCalls |-> <<>>]
    ELSE IF permission \notin DOMAIN rl
    THEN [ret |-> TRUE, err |-> NoError, ruleCalls |-> <<>>]
    ELSE LET out == ApplyRule(rl[permission], subject, resource, context)
         IN  [ret |-> out.value, err |-> out.err,
              ruleCalls |-> <<RuleCall(rl[permission], subject, resource, context)>>]

\* variant: an error raised by the rule is caught and the request denied
canResult_CatchesRuleError(rs, gs, rl, subject, permission, resource, context) ==
    IF ~hasPermission(rs, gs, subject.role, permission)
    THEN [ret |-> FALSE, err |-> NoError, ruleCalls |-> <<>>]
    ELSE IF permission \notin DOMAIN rl
    THEN [ret |-> TRUE, err |-> NoError, ruleCalls |-> <<>>]
    ELSE LET out == ApplyRule(rl[permission], subject, resource, context)
         IN  [ret |-> IF out.err.thrown THEN FALSE ELSE out.value,
              err |-> NoError,
              ruleCalls |-> <<RuleCall(rl[permission], subject, resource, context)>>]

\* can(): 1. RBAC gate, 2. no rule: granted, 3. the rule decides
canResult(rs, gs, rl, subject, permission, resource, context) ==
    IF ~hasPermission(rs, gs, subject.role, permission)
    THEN [ret |-> FALSE, err |-> NoError, ruleCalls |-> <<>>]
    ELSE IF permission \notin DOMAIN rl
    THEN [ret |-> TRUE, err |-> NoError, ruleCalls |-> <<>>]
    ELSE LET out == ApplyRule(rl[permission], subject, resource, context)
         IN  [ret |-> out.value, err |-> out.err,
              ruleCalls |-> <<RuleCall(rl[permission], subject, resource, context)>>]

-----------------------------------------------------------------------------
(* Serialization                                                           *)

\* [...set]: the elements of a Set as an array (iteration order abstracted)
RECURSIVE SetToSeq(_)
SetToSeq(S) ==
    IF S = {} THEN <<>>
    ELSE LET x == CHOOSE y \in S : TRUE IN <<x>> \o SetToSeq(S \ {x})

\* a plain JavaScript object: its own enumerable string-keyed properties in
\* the order Object.entries lists them
Obj(entries) == [kind |-> "object", entries |-> entries]

\* the JavaScript value null
Null == [kind |-> "null"]

IsNull(v) == v.kind = "null"

Keys(o) == {o.entries[i].k : i \in DOMAIN o.entries}

Has(o, k) == k \in Keys(o)

Get(o, k) == o.entries[CHOOSE i \in DOMAIN o.entries : o.entries[i].k = k].v

\* Deno removes the Object.prototype.__proto__ accessor; Node.js and browsers
\* keep it, and there `m["__proto__"] = obj` on a plain object sets the
\* prototype of m instead of creating an own property
HasProtoAccessor(runtime) == runtime # "deno"

\* the keys for which `m[k] = value` creates an own enumerable property of {}
OwnKeys(keys, runtime) ==
    IF HasProtoAccessor(runtime) THEN keys \ {"__proto__"} ELSE keys

\* Object.entries(v).reduce(...): the entity as an object whose fields are
\* the arrays of its sets
RECURSIVE serializeEntity(_, _)
serializeEntity(v, fields) ==
    IF fields = <<>> THEN <<>>
    ELSE <<[k |-> Head(fields), v |-> SetToSeq(v[Head(fields)])]>>
            \o serializeEntity(v, Tail(fields))

RECURSIVE serializeEntries(_, _)
serializeEntries(map, names) ==
    IF names = <<>> THEN <<>>
    ELSE LET v == map[Head(names)]
         IN  <<[k |-> Head(names),
                v |-> Obj(serializeEntity(v, SetToSeq(DOMAIN v)))]>>
                \o serializeEntries(map, Tail(names))

\* toJSON's serialize(map): a plain object keyed by name
serialize(map, runtime) ==
    Obj(serializeEntries(map, SetToSeq(OwnKeys(DOMAIN map, runtime))))

toJSONResult(rs, gs, runtime) ==
    Obj(<<[k |-> "roles", v |-> serialize(rs, runtime)],
          [k |-> "groups", v |-> serialize(gs, runtime)]>>)

\* JSON text is modelled by the document it denotes; text that is not JSON
\* denotes nothing
JsonStringify(doc) == [kind |-> "string", parses |-> TRUE, value |-> doc]

SyntaxError == [thrown |-> TRUE, name |-> "SyntaxError", message |-> <<"invalid JSON">>]

\* reading a property of null
TypeError ==
    [thrown |-> TRUE, name |-> "TypeError",
     message |-> <<"Cannot read properties of null">>]

IsString(dump) == dump.kind = "string"

JsonParse(text) ==
    IF text.parses THEN [err |-> NoError, value |-> text.value]
    ELSE [err |-> SyntaxError, value |-> Absent]

dumpResult(rs, gs, runtime) == JsonStringify(toJSONResult(rs, gs, runtime))

\* o.permissions / o.memberOf: a missing field reads as undefined and the
\* parameter takes its default
Field(o, k, default) == IF Has(o, k) THEN Get(o, k) ELSE default

\* data.groups || {} / data.roles || {}
Section(data, k) ==
    IF Has(data, k) /\ ~IsNull(Get(data, k)) THEN Get(data, k) ELSE Obj(<<>>)

\* variant: a group entry without permissions is passed over
RECURSIVE RestoreGroups_SkipsBare(_, _)
RestoreGroups_SkipsBare(entries, gs) ==
    IF entries = <<>> THEN [groups |-> gs, err |-> NoError]
    ELSE LET name == Head(entries).k
             o    == Head(entries).v
         IN  IF IsNull(o) THEN [groups |-> gs, err |-> TypeError]
             ELSE RestoreGroups_SkipsBare(Tail(entries),
                      IF Has(o, "permissions")
                      THEN addGroupResult(gs, name, Get(o, "permissions"))
                      ELSE gs)

\* Object.entries(data.groups || {}).forEach(addGroup)
RECURSIVE RestoreGroups(_, _)
RestoreGroups(entries, gs) ==
    IF entries = <<>> THEN [groups |-> gs, err |-> NoError]
    ELSE LET name == Head(entries).k
             o    == Head(entries).v
         IN  IF IsNull(o) THEN [groups |-> gs, err |-> TypeError]
             ELSE RestoreGroups(Tail(entries),
                      addGroupResult(gs, name, Field(o, "permissions", <<>>)))

\* variant: a role entry that cannot be added is skipped
RECURSIVE RestoreRoles_SkipsFailed(_, _, _)
RestoreRoles_SkipsFailed(entries, rs, gs) ==
    IF entries = <<>> THEN [roles |-> rs, err |-> NoError]
    ELSE LET name == Head(entries).k
             o    == Head(entries).v
         IN  IF IsNull(o) THEN [roles |-> rs, err |-> TypeError]
             ELSE LET res == addRoleResult(rs, gs, name,
                                           Field(o, "permissions", <<>>),
                                           Field(o, "memberOf", <<>>))
                  IN  RestoreRoles_SkipsFailed(Tail(entries),
                          IF res.err.thrown THEN rs ELSE res.roles, gs)

\* Object.entries(data.roles || {}).forEach(addRole): stops at the first throw
RECURSIVE RestoreRoles(_, _, _)
RestoreRoles(entries, rs, gs) ==
    IF entries = <<>> THEN [roles |-> rs, err |-> NoError]
    ELSE LET name == Head(entries).k
             o    == Head(entries).v
         IN  IF IsNull(o) THEN [roles |-> rs, err |-> TypeError]
             ELSE LET res == addRoleResult(rs, gs, name,
                                           Field(o, "permissions", <<>>),
                                           Field(o, "memberOf", <<>>))
                  IN  IF res.err.thrown THEN res
                      ELSE RestoreRoles(Tail(entries), res.roles, gs)

\* variant: the caught error is thrown again as it is
UnableToRestore_Rethrown(e) == e

\* new Error(`Unable to restore dump: ${_e}`)
UnableToRestore(e) ==
    [thrown |-> TRUE, name |-> "Error",
     message |-> <<"Unable to restore dump: ", e.name, ": ">> \o e.message]

\* variant: the rule map is shared by every instance
NewRbac_SharedRules ==
    [roles |-> EmptyMap, groups |-> EmptyMap, rules |-> rules, shares |-> {"rules"}]

\* variant: the three maps are static, one for all instances
NewRbac_StaticMaps ==
    [roles |-> roles, groups |-> groups, rules |-> rules,
     shares |-> {"roles", "groups", "rules"}]

\* new Rbac(): the field initialisers make three empty maps for each
\* instance; `shares` names the maps that are also another instance's
NewRbac ==
    [roles |-> EmptyMap, groups |-> EmptyMap, rules |-> EmptyMap, shares |-> {}]

\* variant: the sections are restored in the order the dump lists them
restoreResult_InListedOrder(dump) ==
    LET rbac   == NewRbac
        parsed == IF IsString(dump) THEN JsonParse(dump)
                  ELSE [err |-> NoError, value |-> dump]
    IN  IF parsed.err.thrown
        THEN [err |-> UnableToRestore(parsed.err), ret |-> Absent]
        ELSE IF IsNull(parsed.value)
        THEN [err |-> UnableToRestore(TypeError), ret |-> Absent]
        ELSE LET data == parsed.value
                 rolesFirst == /\ data.entries # <<>>
                               /\ data.entries[1].k = "roles"
                 gres == RestoreGroups(Section(data, "groups").entries, rbac.groups)
                 rres == IF gres.err.thrown THEN [roles |-> rbac.roles, err |-> gres.err]
                         ELSE RestoreRoles(Section(data, "roles").entries, rbac.roles,
                                           IF rolesFirst THEN rbac.groups
                                           ELSE gres.groups)
             IN  IF rres.err.thrown
                 THEN [err |-> UnableToRestore(rres.err), ret |-> Absent]
                 ELSE [err |-> NoError,
                       ret |-> [roles |-> rres.roles, groups |-> gres.groups,
                                rules |-> rbac.rules]]

\* variant: a missing section is read without the `|| {}` default
restoreResult_NeedsSections(dump) ==
    LET rbac   == NewRbac
        parsed == IF IsString(dump) THEN JsonParse(dump)
                  ELSE [err |-> NoError, value |-> dump]
    IN  IF parsed.err.thrown
        THEN [err |-> UnableToRestore(parsed.err), ret |-> Absent]
        ELSE IF IsNull(parsed.value)
        THEN [err |-> UnableToRestore(TypeError), ret |-> Absent]
        ELSE IF ~Has(parsed.value, "groups") \/ ~Has(parsed.value, "roles")
        THEN [err |-> UnableToRestore(TypeError), ret |-> Absent]
        ELSE LET data == parsed.value
                 gres == RestoreGroups(Section(data, "groups").entries, rbac.groups)
                 rres == IF gres.err.thrown THEN [roles |-> rbac.roles, err |-> gres.err]
                         ELSE RestoreRoles(Section(data, "roles").entries,
                                           rbac.roles, gres.groups)
             IN  IF rres.err.thrown
                 THEN [err |-> UnableToRestore(rres.err), ret |-> Absent]
                 ELSE [err |-> NoError,
                       ret |-> [roles |-> rres.roles, groups |-> gres.groups,
                                rules |-> rbac.rules]]

\* Rbac.restore(dump): a new instance, groups first, then roles; any throw
\* is wrapped and no instance is returned
restoreResult(dump) ==
    LET rbac   == NewRbac
        parsed == IF IsString(dump) THEN JsonParse(dump)
                  ELSE [err |-> NoError, value |-> dump]
    IN  IF parsed.err.thrown
        THEN [err |-> UnableToRestore(parsed.err), ret |-> Absent]
        ELSE IF IsNull(parsed.value)
        THEN [err |-> UnableToRestore(TypeError), ret |-> Absent]
        ELSE LET data == parsed.value
                 gres == RestoreGroups(Section(data, "groups").entries, rbac.groups)
                 rres == IF gres.err.thrown THEN [roles |-> rbac.roles, err |-> gres.err]
                         ELSE RestoreRoles(Section(data, "roles").entries,
                                           rbac.roles, gres.groups)
             IN  IF rres.err.thrown
                 THEN [err |-> UnableToRestore(rres.err), ret |-> Absent]
                 ELSE [err |-> NoError,
                       ret |-> [roles |-> rres.roles, groups |-> gres.groups,
                                rules |-> rbac.rules]]

-----------------------------------------------------------------------------
(* Introspection                                                           *)

\* variant: every listed permission must be held
SomeIn_Every(all, permissions) ==
    \A i \in DOMAIN permissions : permissions[i] \in all

\* for (const perm of permissions) { if (all.has(perm)) return true; } return false
RECURSIVE SomeIn(_, _)
SomeIn(all, permissions) ==
    IF permissions = <<>> THEN FALSE
    ELSE IF Head(permissions) \in all THEN TRUE
    ELSE SomeIn(all, Tail(permissions))

hasSomePermission(rs, gs, roleName, permissions) ==
    SomeIn(getPermissions(rs, gs, roleName), permissions)

hasRole(rs, name) == name \in DOMAIN rs

\* [...map.keys()]: the keys as an array (insertion order abstracted)
getRoles(rs) == SetToSeq(DOMAIN rs)

hasGroup(gs, name) == name \in DOMAIN gs

getGroups(gs) == SetToSeq(DOMAIN gs)

hasRule(rl, permission) == permission \in DOMAIN rl

getRules(rl) == SetToSeq(DOMAIN rl)

-----------------------------------------------------------------------------
(* Calls: one action per public method                                     *)

Store == [roles |-> roles, groups |-> groups, rules |-> rules]

\* history of the call being made: `pre` is the store it started from
CallWithRules(op, args, err, ret, ruleCalls) ==
    /\ last' = [op |-> op, args |-> args, err |-> err, ret |-> ret,
                ruleCalls |-> ruleCalls]
    /\ pre' = Store

Call(op, args, err, ret) == CallWithRules(op, args, err, ret, <<>>)

\* new Rbac()
Init ==
    /\ roles = EmptyMap
    /\ groups = EmptyMap
    /\ rules = EmptyMap
    /\ last = [op |-> "new", args |-> <<>>, err |-> NoError, ret |-> "this",
               ruleCalls |-> <<>>]
    /\ pre = [roles |-> EmptyMap, groups |-> EmptyMap, rules |-> EmptyMap]

addRole(name, permissions, groupNames) ==
    LET res == addRoleResult(roles, groups, name, permissions, groupNames)
    IN  /\ roles' = res.roles
        /\ UNCHANGED <<groups, rules>>
        /\ Call("addRole",
                [name |-> name, permissions |-> permissions, groupNames |-> groupNames],
                res.err, IF res.err.thrown THEN Absent ELSE "this")

removeRolePermissions(name, permissions) ==
    /\ roles' = removeRolePermissionsResult(roles, name, permissions)
    /\ UNCHANGED <<groups, rules>>
    /\ Call("removeRolePermissions", [name |-> name, permissions |-> permissions],
            NoError, "this")

removeRole(name) ==
    /\ roles' = removeRoleResult(roles, name)
    /\ UNCHANGED <<groups, rules>>
    /\ Call("removeRole", [name |-> name], NoError, "this")

addGroup(name, permissions) ==
    /\ groups' = addGroupResult(groups, name, permissions)
    /\ UNCHANGED <<roles, rules>>
    /\ Call("addGroup", [name |-> name, permissions |-> permissions], NoError, "this")

removeGroupPermissions(name, permissions) ==
    /\ groups' = removeGroupPermissionsResult(groups, name, permissions)
    /\ UNCHANGED <<roles, rules>>
    /\ Call("removeGroupPermissions", [name |-> name, permissions |-> permissions],
            NoError, "this")

\* variant: rules for the permissions of the removed group go with it
removeGroup_DropsRules(name) ==
    LET res == removeGroupResult(roles, groups, name)
        gone == IF name \in DOMAIN groups THEN groups[name].permissions ELSE {}
    IN  /\ groups' = res.groups
        /\ roles' = res.roles
        /\ rules' = [p \in DOMAIN rules \ gone |-> rules[p]]
        /\ Call("removeGroup", [name |-> name], NoError, "this")

removeGroup(name) ==
    LET res == removeGroupResult(roles, groups, name)
    IN  /\ groups' = res.groups
        /\ roles' = res.roles
        /\ UNCHANGED rules
        /\ Call("removeGroup", [name |-> name], NoError, "this")

addRoleToGroup(roleName, groupName) ==
    LET res == addRoleToGroupResult(roles, groups, roleName, groupName)
    IN  /\ roles' = res.roles
        /\ UNCHANGED <<groups, rules>>
        /\ Call("addRoleToGroup", [roleName |-> roleName, groupName |-> groupName],
                res.err, IF res.err.thrown THEN Absent ELSE "this")

removeRoleFromGroup(roleName, groupName) ==
    /\ roles' = removeRoleFromGroupResult(roles, roleName, groupName)
    /\ UNCHANGED <<groups, rules>>
    /\ Call("removeRoleFromGroup", [roleName |-> roleName, groupName |-> groupName],
            NoError, "this")

\* variant: the read path creates the role it is asked about
getPermissionsCall_InitsRole(roleName) ==
    /\ roles' = initRole(roles, roleName)
    /\ UNCHANGED <<groups, rules>>
    /\ Call("getPermissions", [roleName |-> roleName], NoError,
            getPermissions(roles, groups, roleName))

\* the call also records which Set object the caller now holds
getPermissionsCall(roleName) ==
    /\ UNCHANGED <<roles, groups, rules>>
    /\ last' = [op |-> "getPermissions", args |-> [roleName |-> roleName],
                err |-> NoError, ret |-> getPermissions(roles, groups, roleName),
                ruleCalls |-> <<>>,
                object |-> getPermissionsObject(roles, groups, roleName)]
    /\ pre' = Store

\* the caller adds to or deletes from the Set that getPermissions returned;
\* the store changes if that object is one of the store's own Sets
mutateReturned(permission, kind) ==
    LET changed == IF kind = "add" THEN last.ret \cup {permission}
                   ELSE last.ret \ {permission}
    IN  /\ last.op \in {"getPermissions", "mutateReturned"}
        /\ roles' = IF last.object.object = "role"
                    THEN [roles EXCEPT ![last.object.name].permissions = changed]
                    ELSE roles
        /\ groups' = IF last.object.object = "group"
                     THEN [groups EXCEPT ![last.object.name].permissions = changed]
                     ELSE groups
        /\ UNCHANGED rules
        /\ last' = [op |-> "mutateReturned",
                    args |-> [roleName |-> last.args.roleName,
                              permission |-> permission, kind |-> kind],
                    err |-> NoError, ret |-> changed, ruleCalls |-> <<>>,
                    object |-> last.object]
        /\ pre' = Store

hasPermissionCall(roleName, permission) ==
    /\ UNCHANGED <<roles, groups, rules>>
    /\ Call("hasPermission", [roleName |-> roleName, permission |-> permission],
            NoError, hasPermission(roles, groups, roleName, permission))

hasSomePermissionCall(roleName, permissions) ==
    /\ UNCHANGED <<roles, groups, rules>>
    /\ Call("hasSomePermission", [roleName |-> roleName, permissions |-> permissions],
            NoError, hasSomePermission(roles, groups, roleName, permissions))

hasRoleCall(name) ==
    /\ UNCHANGED <<roles, groups, rules>>
    /\ Call("hasRole", [name |-> name], NoError, hasRole(roles, name))

getRolesCall ==
    /\ UNCHANGED <<roles, groups, rules>>
    /\ Call("getRoles", <<>>, NoError, getRoles(roles))

hasGroupCall(name) ==
    /\ UNCHANGED <<roles, groups, rules>>
    /\ Call("hasGroup", [name |-> name], NoError, hasGroup(groups, name))

getGroupsCall ==
    /\ UNCHANGED <<roles, groups, rules>>
    /\ Call("getGroups", <<>>, NoError, getGroups(groups))

hasRuleCall(permission) ==
    /\ UNCHANGED <<roles, groups, rules>>
    /\ Call("hasRule", [permission |-> permission], NoError, hasRule(rules, permission))

getRulesCall ==
    /\ UNCHANGED <<roles, groups, rules>>
    /\ Call("getRules", <<>>, NoError, getRules(rules))

\* variant: a rule already registered for the permission is kept
addRule_FirstWins(permission, rule) ==
    /\ rules' = IF permission \in DOMAIN rules THEN rules
                ELSE MapSet(rules, permission, rule)
    /\ UNCHANGED <<roles, groups>>
    /\ Call("addRule", [permission |-> permission, rule |-> rule], NoError, "this")

addRule(permission, rule) ==
    /\ rules' = MapSet(rules, permission, rule)
    /\ UNCHANGED <<roles, groups>>
    /\ Call("addRule", [permission |-> permission, rule |-> rule], NoError, "this")

\* variant: the rule map is cleared
removeRule_ClearsAll(permission) ==
    /\ rules' = EmptyMap
    /\ UNCHANGED <<roles, groups>>
    /\ Call("removeRule", [permission |-> permission], NoError, "this")

removeRule(permission) ==
    /\ rules' = MapDelete(rules, permission)
    /\ UNCHANGED <<roles, groups>>
    /\ Call("removeRule", [permission |-> permission], NoError, "this")

can(subject, permission, resource, context) ==
    LET res == canResult(roles, groups, rules, subject, permission, resource, context)
    IN  /\ UNCHANGED <<roles, groups, rules>>
        /\ CallWithRules("can",
                [subject |-> subject, permission |-> permission,
                 resource |-> resource, context |-> context],
                res.err, res.ret, res.ruleCalls)

toJSON(runtime) ==
    /\ UNCHANGED <<roles, groups, rules>>
    /\ Call("toJSON", [runtime |-> runtime], NoError,
            toJSONResult(roles, groups, runtime))

dump(runtime) ==
    /\ UNCHANGED <<roles, groups, rules>>
    /\ Call("dump", [runtime |-> runtime], NoError, dumpResult(roles, groups, runtime))

\* Rbac.restore is static: the instance it returns is the call's result and
\* the store of the calling program is untouched
restore(dumped) ==
    LET res == restoreResult(dumped)
    IN  /\ UNCHANGED <<roles, groups, rules>>
        /\ Call("restore", [dump |-> dumped], res.err, res.ret)

\* the dumps a program holds of its current store: dump() text and toJSON()
\* object, as written by either runtime
DumpsOfStore ==
    {dumpResult(roles, groups, rt) : rt \in Runtimes}
        \cup {toJSONResult(roles, groups, rt) : rt \in Runtimes}

\* an optional property: omitted, or present with one of the values
OptionalField(key, values) == {<<>>} \cup {<<[k |-> key, v |-> x]>> : x \in values}

ListedIn(field) == IF field = <<>> THEN 0 ELSE Len(field[1].v)

\* entries of the groups section: { permissions?: string[] }
DumpGroupEntries ==
    {Obj(pf) : pf \in OptionalField("permissions", SeqsUpTo(DumpPerms, MaxDumpListed))}

\* entries of the roles section: { permissions?: string[], memberOf?: string[] }
DumpRoleEntries ==
    {Obj(pf \o mf) :
        <<pf, mf>> \in
            {fs \in OptionalField("permissions", SeqsUpTo(DumpPerms, MaxDumpListed))
                    \X OptionalField("memberOf", SeqsUpTo(DumpGroupNames, MaxDumpListed)) :
                ListedIn(fs[1]) + ListedIn(fs[2]) <= MaxDumpListed}}

\* the objects with keys among `names`, in every order, and values among `values`
RECURSIVE ObjectEntries(_, _)
ObjectEntries(names, values) ==
    {<<>>} \cup
    UNION {{<<[k |-> n, v |-> x]>> \o rest :
                x \in values, rest \in ObjectEntries(names \ {n}, values)} :
           n \in names}

\* the roles and groups sections of a dump
DumpRoleSections == {Obj(es) : es \in ObjectEntries(DumpRoleNames, DumpRoleEntries)}

DumpGroupSections == {Obj(es) : es \in ObjectEntries(DumpGroupNames, DumpGroupEntries)}

\* Partial<RbacDump>: either section may be missing, and they come in either
\* order
DumpObjects(rolesField, groupsField) ==
    {Obj(rolesField \o groupsField), Obj(groupsField \o rolesField)}

\* text that is not JSON
NotJson == [kind |-> "string", parses |-> FALSE, value |-> Absent]

\* dumps restore() cannot read: unparseable text, null, a null entry
MalformedDumps ==
    {NotJson, JsonStringify(Null), Null,
     Obj(<<[k |-> "groups", v |-> Obj(<<[k |-> "editors", v |-> Null]>>)]>>),
     Obj(<<[k |-> "groups", v |-> Obj(<<[k |-> "editors", v |-> Obj(<<>>)]>>)],
           [k |-> "roles", v |-> Obj(<<[k |-> "editor", v |-> Null]>>)]>>)}

\* what a caller may hand to Rbac.restore: string | Partial<RbacDump>
DumpInputs(rolesField, groupsField) ==
    LET objects == DumpObjects(rolesField, groupsField)
    IN  objects \cup {JsonStringify(d) : d \in objects} \cup MalformedDumps

\* a store built as in the tests: one group, one role in it, one rule
StoredExample ==
    [roles  |-> MapSet(EmptyMap, "editor",
                       [permissions |-> {"article:read"}, memberOf |-> {"editors"}]),
     groups |-> MapSet(EmptyMap, "editors", [permissions |-> {"article:*"}]),
     rules  |-> MapSet(EmptyMap, "article:read", "isOwner")]

\* a program that holds a store has been handed a dump
InitRestore ==
    /\ roles = StoredExample.roles
    /\ groups = StoredExample.groups
    /\ rules = StoredExample.rules
    /\ \E rolesField \in OptionalField("roles", DumpRoleSections),
          groupsField \in OptionalField("groups", DumpGroupSections) :
          \E dumped \in DumpInputs(rolesField, groupsField) :
            last = [op |-> "receive", args |-> <<>>, err |-> NoError, ret |-> dumped,
                    ruleCalls |-> <<>>]
    /\ pre = StoredExample

\* the program restores the dump it was handed
restoreReceived ==
    /\ last.op = "receive"
    /\ restore(last.ret)

\* an array argument with no element or one
OneOrNone(values) == {<<>>} \cup {<<x>> : x \in values}

\* the mutator calls made on either of two instances
Mutations ==
    [op : {"addRole"}, name : AbacRoleNames, permissions : {<<p>> : p \in Perms}]
        \cup [op : {"addGroup"}, name : AbacGroupNames,
              permissions : {<<p>> : p \in Perms}]
        \cup [op : {"addRoleToGroup", "removeRoleFromGroup"},
              roleName : AbacRoleNames, groupName : AbacGroupNames]
        \cup [op : {"removeRole"}, name : AbacRoleNames]
        \cup [op : {"removeGroup"}, name : AbacGroupNames]
        \cup [op : {"addRule"}, permission : {"article:read"}, rule : QueryRuleFns]
        \cup [op : {"removeRule"}, permission : {"article:read"}]

\* the maps of instance st after mutator call m on it
ApplyMutation(st, m) ==
    CASE m.op = "addRole" ->
            [st EXCEPT !.roles = addRoleResult(st.roles, st.groups, m.name,
                                               m.permissions, <<>>).roles]
      [] m.op = "addGroup" ->
            [st EXCEPT !.groups = addGroupResult(st.groups, m.name, m.permissions)]
      [] m.op = "addRoleToGroup" ->
            [st EXCEPT !.roles = addRoleToGroupResult(st.roles, st.groups,
                                                      m.roleName, m.groupName).roles]
      [] m.op = "removeRoleFromGroup" ->
            [st EXCEPT !.roles = removeRoleFromGroupResult(st.roles, m.roleName,
                                                           m.groupName)]
      [] m.op = "removeRole" ->
            [st EXCEPT !.roles = removeRoleResult(st.roles, m.name)]
      [] m.op = "removeGroup" ->
            [st EXCEPT !.groups = removeGroupResult(st.roles, st.groups, m.name).groups,
                       !.roles = removeGroupResult(st.roles, st.groups, m.name).roles]
      [] m.op = "addRule" ->
            [st EXCEPT !.rules = MapSet(st.rules, m.permission, m.rule)]
      [] m.op = "removeRule" ->
            [st EXCEPT !.rules = MapDelete(st.rules, m.permission)]

\* instance `mine` after instance `theirs` became `changed`: a map that is
\* one object in both shows the change
SeenThrough(mine, changed, shared) ==
    [roles  |-> IF "roles" \in shared THEN changed.roles ELSE mine.roles,
     groups |-> IF "groups" \in shared THEN changed.groups ELSE mine.groups,
     rules  |-> IF "rules" \in shared THEN changed.rules ELSE mine.rules]

\* a program holds two instances: its store and the one restore returned
\* (kept in last.ret); `before` is the restored instance before the call
HoldsRestored ==
    \/ last.op = "restore" /\ ~last.err.thrown
    \/ last.op \in {"mutateOriginal", "mutateRestored"}

\* a mutator call on the store while the restored instance is held
mutateOriginal(m) ==
    LET changed == ApplyMutation(Store, m)
    IN  /\ HoldsRestored
        /\ roles' = changed.roles
        /\ groups' = changed.groups
        /\ rules' = changed.rules
        /\ last' = [op |-> "mutateOriginal", args |-> m, err |-> NoError,
                    ret |-> SeenThrough(last.ret, changed, NewRbac.shares),
                    ruleCalls |-> <<>>, before |-> last.ret]
        /\ pre' = Store

\* a mutator call on the restored instance
mutateRestored(m) ==
    LET changed == ApplyMutation(last.ret, m)
        seen    == SeenThrough(Store, changed, NewRbac.shares)
    IN  /\ HoldsRestored
        /\ roles' = seen.roles
        /\ groups' = seen.groups
        /\ rules' = seen.rules
        /\ last' = [op |-> "mutateRestored", args |-> m, err |-> NoError,
                    ret |-> changed, ruleCalls |-> <<>>, before |-> last.ret]
        /\ pre' = Store

-----------------------------------------------------------------------------
(* Specifications                                                          *)

\* the entity store, the resolution engine and the serialization
Next ==
    \/ \E name \in RoleNames, permissions \in PermLists :
          \E groupNames \in GroupNameLists(GroupNames, permissions) :
            addRole(name, permissions, groupNames)
    \/ \E name \in RoleNames, permissions \in PermLists :
            removeRolePermissions(name, permissions)
    \/ \E name \in RoleNames : removeRole(name)
    \/ \E name \in GroupNames, permissions \in PermLists : addGroup(name, permissions)
    \/ \E name \in GroupNames, permissions \in PermLists :
            removeGroupPermissions(name, permissions)
    \/ \E name \in GroupNames : removeGroup(name)
    \/ \E roleName \in RoleNames, groupName \in GroupNames :
            addRoleToGroup(roleName, groupName)
    \/ \E roleName \in RoleNames, groupName \in GroupNames :
            removeRoleFromGroup(roleName, groupName)
    \/ \E roleName \in RoleNames : getPermissionsCall(roleName)
    \/ \E roleName \in RoleNames, permission \in Perms :
            hasPermissionCall(roleName, permission)
    \/ \E runtime \in Runtimes : toJSON(runtime)
    \/ \E runtime \in Runtimes : dump(runtime)
    \/ \E dumped \in DumpsOfStore : restore(dumped)

Spec == Init /\ [][Next]_vars

\* the decision procedure over a store with rules
NextAbac ==
    \/ \E name \in AbacRoleNames, permissions \in PermLists :
          \E groupNames \in GroupNameLists(AbacGroupNames, permissions) :
            addRole(name, permissions, groupNames)
    \/ \E name \in AbacRoleNames : removeRole(name)
    \/ \E name \in AbacGroupNames, permissions \in PermLists : addGroup(name, permissions)
    \/ \E name \in AbacGroupNames : removeGroup(name)
    \/ \E roleName \in AbacRoleNames, groupName \in AbacGroupNames :
            addRoleToGroup(roleName, groupName)
    \/ \E permission \in Perms, rule \in RuleFns : addRule(permission, rule)
    \/ \E permission \in Perms : removeRule(permission)
    \/ \E subject \in Subjects(AbacRoleNames), permission \in Perms,
          resource \in Resources, context \in Contexts :
            can(subject, permission, resource, context)

SpecAbac == Init /\ [][NextAbac]_vars

\* every query, and dump / restore, over a store with rules
NextQuery ==
    \/ \E name \in AbacRoleNames, permissions \in PermLists :
          \E groupNames \in GroupNameLists(AbacGroupNames, permissions) :
            addRole(name, permissions, groupNames)
    \/ \E name \in AbacRoleNames : removeRole(name)
    \/ \E name \in AbacGroupNames, permissions \in PermLists : addGroup(name, permissions)
    \/ \E name \in AbacGroupNames : removeGroup(name)
    \/ \E permission \in Perms, rule \in QueryRuleFns : addRule(permission, rule)
    \/ \E permission \in Perms : removeRule(permission)
    \/ \E roleName \in AbacRoleNames : getPermissionsCall(roleName)
    \/ \E roleName \in AbacRoleNames, permission \in Perms :
            hasPermissionCall(roleName, permission)
    \/ \E roleName \in AbacRoleNames, permissions \in PermLists :
            hasSomePermissionCall(roleName, permissions)
    \/ \E name \in AbacRoleNames : hasRoleCall(name)
    \/ getRolesCall
    \/ \E name \in AbacGroupNames : hasGroupCall(name)
    \/ getGroupsCall
    \/ \E permission \in Perms : hasRuleCall(permission)
    \/ getRulesCall
    \/ \E subject \in Subjects(AbacRoleNames), permission \in Perms,
          resource \in Resources, context \in Contexts :
            can(subject, permission, resource, context)
    \/ \E runtime \in Runtimes : toJSON(runtime)
    \/ \E runtime \in Runtimes : dump(runtime)
    \/ \E dumped \in DumpsOfStore : restore(dumped)

SpecQuery == Init /\ [][NextQuery]_vars

\* two roles sharing a group, with a rule, as roles come and go
NextRoles ==
    \/ \E name \in PairRoleNames, permissions \in PermLists :
          \E groupNames \in GroupNameLists(AbacGroupNames, permissions) :
            addRole(name, permissions, groupNames)
    \/ \E name \in PairRoleNames : removeRole(name)
    \/ \E name \in AbacGroupNames, permissions \in PermLists : addGroup(name, permissions)
    \/ \E name \in AbacGroupNames : removeGroup(name)
    \/ \E roleName \in PairRoleNames, groupName \in AbacGroupNames :
            addRoleToGroup(roleName, groupName)
    \/ addRule("article:read", "allowAll")
    \/ removeRule("article:read")

SpecRoles == Init /\ [][NextRoles]_vars

\* a caller that changes the Sets it got from getPermissions
NextSnapshot ==
    \/ \E name \in AbacRoleNames, permissions \in PermLists :
          \E groupNames \in GroupNameLists(AbacGroupNames, permissions) :
            addRole(name, permissions, groupNames)
    \/ \E name \in AbacGroupNames, permissions \in PermLists : addGroup(name, permissions)
    \/ \E roleName \in AbacRoleNames : getPermissionsCall(roleName)
    \/ \E roleName \in AbacRoleNames, permission \in Perms :
            hasPermissionCall(roleName, permission)
    \/ \E permission \in Perms, kind \in {"add", "delete"} :
            mutateReturned(permission, kind)

SpecSnapshot == Init /\ [][NextSnapshot]_vars

\* a store, the instance restored from its dump, and mutator calls on either
NextTwo ==
    \/ \E name \in AbacRoleNames, p \in Perms : addRole(name, <<p>>, <<>>)
    \/ \E name \in AbacGroupNames, p \in Perms : addGroup(name, <<p>>)
    \/ \E roleName \in AbacRoleNames, groupName \in AbacGroupNames :
            addRoleToGroup(roleName, groupName)
    \/ \E rule \in QueryRuleFns : addRule("article:read", rule)
    \/ \E dumped \in DumpsOfStore : restore(dumped)
    \/ \E m \in Mutations : mutateOriginal(m)
    \/ \E m \in Mutations : mutateRestored(m)

SpecTwo == Init /\ [][NextTwo]_vars

\* every mutator of roles and groups next to the rule registry
NextLifecycle ==
    \/ \E name \in AbacRoleNames, permissions \in PermLists :
          \E groupNames \in GroupNameLists(AbacGroupNames, permissions) :
            addRole(name, permissions, groupNames)
    \/ \E name \in AbacRoleNames, permissions \in PermLists :
            removeRolePermissions(name, permissions)
    \/ \E name \in AbacRoleNames : removeRole(name)
    \/ \E name \in AbacGroupNames, permissions \in PermLists : addGroup(name, permissions)
    \/ \E name \in AbacGroupNames, permissions \in PermLists :
            removeGroupPermissions(name, permissions)
    \/ \E name \in AbacGroupNames : removeGroup(name)
    \/ \E roleName \in AbacRoleNames, groupName \in AbacGroupNames :
            addRoleToGroup(roleName, groupName)
    \/ \E roleName \in AbacRoleNames, groupName \in AbacGroupNames :
            removeRoleFromGroup(roleName, groupName)
    \/ \E permission \in Perms, rule \in QueryRuleFns : addRule(permission, rule)
    \/ \E permission \in Perms : removeRule(permission)

SpecLifecycle == Init /\ [][NextLifecycle]_vars

\* two roles and two groups, one call at a time on one of them
NextLocal ==
    \/ \E name \in PairRoleNames, permissions \in OneOrNone(DirectPerms),
          groupNames \in OneOrNone(PairGroupNames) :
            addRole(name, permissions, groupNames)
    \/ \E name \in PairRoleNames, permissions \in OneOrNone(DirectPerms) \ {<<>>} :
            removeRolePermissions(name, permissions)
    \/ \E name \in PairRoleNames : removeRole(name)
    \/ \E name \in PairGroupNames, permissions \in OneOrNone(Perms) :
            addGroup(name, permissions)
    \/ \E name \in PairGroupNames, permissions \in OneOrNone(Perms) \ {<<>>} :
            removeGroupPermissions(name, permissions)
    \/ \E name \in PairGroupNames : removeGroup(name)
    \/ \E roleName \in PairRoleNames, groupName \in PairGroupNames :
            addRoleToGroup(roleName, groupName)
    \/ \E roleName \in PairRoleNames, groupName \in PairGroupNames :
            removeRoleFromGroup(roleName, groupName)

SpecLocal == Init /\ [][NextLocal]_vars

\* a role and a group of the same name
NextNames ==
    \/ \E name \in SharedNames, permissions \in OneOrNone(Perms),
          groupNames \in OneOrNone(SharedGroupNames) :
            addRole(name, permissions, groupNames)
    \/ \E name \in SharedNames, permissions \in OneOrNone(Perms) \ {<<>>} :
            removeRolePermissions(name, permissions)
    \/ \E name \in SharedNames : removeRole(name)
    \/ \E name \in SharedGroupNames, permissions \in OneOrNone(Perms) :
            addGroup(name, permissions)
    \/ \E name \in SharedGroupNames, permissions \in OneOrNone(Perms) \ {<<>>} :
            removeGroupPermissions(name, permissions)
    \/ \E name \in SharedGroupNames : removeGroup(name)
    \/ \E roleName \in SharedNames, groupName \in SharedGroupNames :
            addRoleToGroup(roleName, groupName)
    \/ \E roleName \in SharedNames, groupName \in SharedGroupNames :
            removeRoleFromGroup(roleName, groupName)

SpecNames == Init /\ [][NextNames]_vars

\* Rbac.restore over the dumps a caller may hand it
NextRestore == restoreReceived

SpecRestore == InitRestore /\ [][NextRestore]_vars

-----------------------------------------------------------------------------
(* Properties                                                              *)

\* role r holds permission p directly or through a group it is a member of
Holds(rs, gs, r, p) ==
    /\ r \in DOMAIN rs
    /\ \/ p \in rs[r].permissions
       \/ \E g \in rs[r].memberOf \cap DOMAIN gs : p \in gs[g].permissions

\* the permissions role r holds in the store (rs, gs)
Held(rs, gs, r) == {p \in Perms : Holds(rs, gs, r, p)}

AllCans(names) ==
    [subject : Subjects(names), permission : Perms,
     resource : Resources, context : Contexts]

CanOf(c) ==
    canResult(roles, groups, rules, c.subject, c.permission, c.resource, c.context)

\* C1: in every reachable state and for every role name r, getPermissions(r)
\* is exactly the union of r's direct permissions with the permissions of the
\* groups in r's memberOf (empty when r does not exist), hasPermission(r, p)
\* is membership in that set, and a getPermissions / hasPermission call
\* returns the value for the store as it is now.
C1_Resolution ==
    /\ \A r \in RoleNames :
          /\ getPermissions(roles, groups, r) = Held(roles, groups, r)
          /\ r \notin DOMAIN roles => getPermissions(roles, groups, r) = {}
          /\ \A p \in Perms :
                hasPermission(roles, groups, r, p) <=> Holds(roles, groups, r, p)
    /\ last.op = "getPermissions"
          => last.ret = Held(roles, groups, last.args.roleName)
    /\ last.op = "hasPermission"
          => last.ret = Holds(roles, groups, last.args.roleName, last.args.permission)

\* C1 witness: getPermissions was called for a role that is a member of two
\* groups and gets one permission only from a group and one only directly
C1_Witness ==
    /\ last.op = "getPermissions"
    /\ last.args.roleName \in DOMAIN roles
    /\ Cardinality(roles[last.args.roleName].memberOf) = 2
    /\ \E p \in last.ret : p \notin roles[last.args.roleName].permissions
    /\ \E p \in last.ret :
          /\ p \in roles[last.args.roleName].permissions
          /\ \A g \in DOMAIN groups : p \notin groups[g].permissions

\* C2: RBAC is a necessary gate: whatever rule is registered, can() returns
\* true only if the subject's role holds the permission.
C2_RbacGate ==
    /\ \A c \in AllCans(AbacRoleNames) :
          (~CanOf(c).err.thrown /\ CanOf(c).ret)
              => Holds(roles, groups, c.subject.role, c.permission)
    /\ (last.op = "can" /\ ~last.err.thrown /\ last.ret)
          => Holds(roles, groups, last.args.subject.role, last.args.permission)

\* C2 witness: can() was called for a permission whose rule always allows, by
\* an existing role that lacks the permission, and returned false
C2_Witness ==
    /\ last.op = "can"
    /\ last.args.subject.role \in DOMAIN roles
    /\ last.args.permission \in DOMAIN rules
    /\ rules[last.args.permission] = "allowAll"
    /\ ~Holds(roles, groups, last.args.subject.role, last.args.permission)
    /\ ~last.err.thrown
    /\ last.ret = FALSE

\* C3: when the role lacks the permission, can() returns false and the rule
\* registered for the permission is invoked zero times (nothing is thrown).
C3_NoRuleCallWhenDenied ==
    /\ \A c \in AllCans(AbacRoleNames) :
          ~Holds(roles, groups, c.subject.role, c.permission)
              => CanOf(c) = [ret |-> FALSE, err |-> NoError, ruleCalls |-> <<>>]
    /\ (last.op = "can"
          /\ ~Holds(roles, groups, last.args.subject.role, last.args.permission))
          => /\ last.ruleCalls = <<>>
             /\ ~last.err.thrown
             /\ last.ret = FALSE

\* C3 witness: can() was called for a permission whose rule throws, by a role
\* that lacks the permission
C3_Witness ==
    /\ last.op = "can"
    /\ last.args.permission \in DOMAIN rules
    /\ rules[last.args.permission] = "throws"
    /\ ~Holds(roles, groups, last.args.subject.role, last.args.permission)
    /\ last.ruleCalls = <<>>
    /\ ~last.err.thrown

\* C4: with no rule registered for p, can(subject, p, resource, context) is
\* hasPermission(subject.role, p) for every resource, context and subject id,
\* so two calls that differ only in those return the same result.
C4_NoRuleMeansRbacOnly ==
    /\ \A c \in AllCans(AbacRoleNames) :
          c.permission \notin DOMAIN rules
              => /\ ~CanOf(c).err.thrown
                 /\ CanOf(c).ret = Holds(roles, groups, c.subject.role, c.permission)
                 /\ \A d \in AllCans(AbacRoleNames) :
                       (d.permission = c.permission /\ d.subject.role = c.subject.role)
                           => CanOf(d) = CanOf(c)
    /\ (last.op = "can" /\ last.args.permission \notin DOMAIN rules)
          => /\ ~last.err.thrown
             /\ last.ret = Holds(roles, groups, last.args.subject.role,
                                 last.args.permission)

\* C4 witness: can() granted a permission that has no rule, on a call without
\* resource and context, while a rule is registered for another permission
C4_Witness ==
    /\ last.op = "can"
    /\ last.args.permission \notin DOMAIN rules
    /\ rules # EmptyMap
    /\ last.args.resource = Absent
    /\ last.args.context = Absent
    /\ ~last.err.thrown
    /\ last.ret = TRUE

\* C5: when the role holds p and a rule is registered for p, can() invokes
\* that rule once with exactly the subject, resource and context of the call
\* (an omitted one as absent) and returns the rule's boolean unchanged.
C5_RulePassThrough ==
    \A c \in AllCans(AbacRoleNames) :
        (Holds(roles, groups, c.subject.role, c.permission)
            /\ c.permission \in DOMAIN rules)
        => LET rule == rules[c.permission]
               expected == ApplyRule(rule, c.subject, c.resource, c.context)
               got == IF last.op = "can" /\ last.args = c
                      THEN [ret |-> last.ret, err |-> last.err,
                            ruleCalls |-> last.ruleCalls]
                      ELSE CanOf(c)
           IN  /\ got.ruleCalls = <<RuleCall(rule, c.subject, c.resource, c.context)>>
               /\ got.err = expected.err
               /\ got.ret = expected.value

\* C5 witness: the ownership rule was consulted on a call with a resource of
\* the subject but no context, and granted
C5_Witness ==
    /\ last.op = "can"
    /\ last.args.permission \in DOMAIN rules
    /\ rules[last.args.permission] = "isOwner"
    /\ last.args.resource # Absent
    /\ last.args.context = Absent
    /\ Len(last.ruleCalls) = 1
    /\ last.ruleCalls[1].context = Absent
    /\ last.ret = TRUE

\* the memberOf set of a role name in a role map (empty when there is no role)
MemberOf(rs, r) == IF r \in DOMAIN rs THEN rs[r].memberOf ELSE {}

\* C6: addRole(r, [], [g]) throws "Group 'g' does not exist" whenever g is
\* not a group at call time; once addGroup(g) has run the identical call
\* succeeds, r is a member of g and holds every permission of g.
C6_GroupPrerequisite ==
    /\ \A r \in RoleNames, g \in GroupNames :
          LET res == addRoleResult(roles, groups, r, <<>>, <<g>>)
          IN  IF g \notin DOMAIN groups
              THEN res.err = GroupDoesNotExist(g)
              ELSE /\ ~res.err.thrown
                   /\ g \in res.roles[r].memberOf
                   /\ groups[g].permissions \subseteq Held(res.roles, groups, r)
    /\ last.op = "addGroup" => last.args.name \in DOMAIN groups
    /\ (last.op = "addRole" /\ last.args.permissions = <<>>
          /\ Len(last.args.groupNames) = 1)
          => LET r == last.args.name
                 g == last.args.groupNames[1]
             IN  IF g \notin DOMAIN pre.groups
                 THEN last.err = GroupDoesNotExist(g)
                 ELSE /\ ~last.err.thrown
                      /\ g \in roles[r].memberOf
                      /\ groups[g].permissions \subseteq getPermissions(roles, groups, r)

\* C6 witness: addRole(r, [], [g]) succeeded on an existing group g that
\* grants something, for a role that did not exist and now holds it
C6_Witness ==
    /\ last.op = "addRole"
    /\ last.args.permissions = <<>>
    /\ Len(last.args.groupNames) = 1
    /\ ~last.err.thrown
    /\ last.args.name \notin DOMAIN pre.roles
    /\ groups[last.args.groupNames[1]].permissions # {}
    /\ getPermissions(roles, groups, last.args.name)
          = groups[last.args.groupNames[1]].permissions

\* C7: a failing addRole validates the groups all-or-nothing: the role's
\* memberOf set after the failing call equals its memberOf set before it.
C7_AllOrNothing ==
    (last.op = "addRole" /\ last.err.thrown)
        => MemberOf(roles, last.args.name) = MemberOf(pre.roles, last.args.name)

\* C8: addRoleToGroup with a group that does not exist throws "Group 'g' does
\* not exist" and leaves roles, groups and rules as they were; the role is
\* not created.
C8_AddRoleToGroupAtomic ==
    /\ \A r \in AbacRoleNames, g \in AbacGroupNames :
          g \notin DOMAIN groups
              => addRoleToGroupResult(roles, groups, r, g)
                    = [roles |-> roles, err |-> GroupDoesNotExist(g)]
    /\ (last.op = "addRoleToGroup" /\ last.args.groupName \notin DOMAIN pre.groups)
          => /\ last.err = GroupDoesNotExist(last.args.groupName)
             /\ Store = pre
             /\ last.args.roleName \notin DOMAIN pre.roles
                   => last.args.roleName \notin DOMAIN roles

\* C8 witness: addRoleToGroup failed for a role that does not exist, in a
\* store that has rules
C8_Witness ==
    /\ last.op = "addRoleToGroup"
    /\ last.err.thrown
    /\ last.args.roleName \notin DOMAIN roles
    /\ rules # EmptyMap

\* in store st, role r holds p through group g and through nothing else
OnlyThrough(st, r, p, g) ==
    /\ r \in DOMAIN st.roles
    /\ g \in st.roles[r].memberOf \cap DOMAIN st.groups
    /\ p \in st.groups[g].permissions
    /\ p \notin st.roles[r].permissions
    /\ \A h \in (st.roles[r].memberOf \cap DOMAIN st.groups) \ {g} :
          p \notin st.groups[h].permissions

\* C9: after removeGroup(g) the group is gone, no role lists g in memberOf,
\* the same roles exist with the same direct permissions, and a permission a
\* role held only through g is no longer held; removing an absent group
\* changes nothing.
C9_RemoveGroupCascade ==
    last.op = "removeGroup"
        => LET g == last.args.name
           IN  /\ g \notin DOMAIN groups
               /\ \A r \in DOMAIN roles : g \notin roles[r].memberOf
               /\ DOMAIN roles = DOMAIN pre.roles
               /\ \A r \in DOMAIN roles :
                     roles[r].permissions = pre.roles[r].permissions
               /\ \A r \in RoleNames, p \in Perms :
                     OnlyThrough(pre, r, p, g) => ~hasPermission(roles, groups, r, p)
               /\ g \notin DOMAIN pre.groups => Store = pre

\* C9 witness: removeGroup(g) took away a permission that a role with direct
\* permissions and another membership held only through g
C9_Witness ==
    /\ last.op = "removeGroup"
    /\ \E r \in DOMAIN roles :
          /\ \E p \in Perms : OnlyThrough(pre, r, p, last.args.name)
          /\ roles[r].permissions # {}
          /\ roles[r].memberOf # {}

\* the restored store answers hasPermission, hasRole and hasGroup as st does
SameAnswers(restored, st) ==
    /\ DOMAIN restored.roles = DOMAIN st.roles
    /\ DOMAIN restored.groups = DOMAIN st.groups
    /\ \A r \in DOMAIN st.roles \cup DOMAIN restored.roles, p \in Perms :
          hasPermission(restored.roles, restored.groups, r, p)
              <=> hasPermission(st.roles, st.groups, r, p)

\* C10: restoring a dump() or toJSON() of the store succeeds and yields a
\* store with the same hasPermission, hasRole and hasGroup answers.
C10_RoundTrip ==
    (last.op = "restore" /\ last.args.dump \in DumpsOfStore)
        => /\ ~last.err.thrown
           /\ SameAnswers(last.ret, Store)

\* the decision of can() on the store st
CanIn(st, c) ==
    canResult(st.roles, st.groups, st.rules, c.subject, c.permission,
              c.resource, c.context)

\* C11: rules are never dumped and never restored: toJSON() and dump() carry
\* the roles and groups sections only, and the store restored from a dump of
\* the current store, whatever rules the current store holds, has an empty
\* rule map (getRules() is empty, hasRule(p) is false for every p), so that on
\* it can(subject, p, ...) is hasPermission(subject.role, p) and calls no rule.
C11_RulesNotDumped ==
    /\ last.op = "toJSON" => Keys(last.ret) = {"roles", "groups"}
    /\ last.op = "dump" => Keys(last.ret.value) = {"roles", "groups"}
    /\ (last.op = "restore" /\ last.args.dump \in DumpsOfStore /\ ~last.err.thrown)
          => /\ getRules(last.ret.rules) = <<>>
             /\ \A p \in Perms : ~hasRule(last.ret.rules, p)
             /\ \A c \in AllCans(AbacRoleNames) :
                   CanIn(last.ret, c)
                     = [ret |-> hasPermission(last.ret.roles, last.ret.groups,
                                              c.subject.role, c.permission),
                        err |-> NoError, ruleCalls |-> <<>>]

\* C11 witness: a store with a rule was dumped and restored, and a request the
\* rule denies on the store is allowed on the restored store
C11_Witness ==
    /\ last.op = "restore"
    /\ last.args.dump \in DumpsOfStore
    /\ ~last.err.thrown
    /\ rules # EmptyMap
    /\ \E c \in AllCans(AbacRoleNames) :
          /\ ~CanOf(c).ret
          /\ CanIn(last.ret, c).ret

\* the document a dump denotes
DocOf(dumped) == IF IsString(dumped) THEN dumped.value ELSE dumped

RoleEntriesOf(doc) == Section(doc, "roles").entries

GroupKeysOf(doc) == Keys(Section(doc, "groups"))

\* the group names role entry e lists
ListedGroups(e) == Range(Field(e.v, "memberOf", <<>>))

\* some role entry lists a group that is not a key of the groups section
Dangling(doc) ==
    \E i \in DOMAIN RoleEntriesOf(doc) :
        ~(ListedGroups(RoleEntriesOf(doc)[i]) \subseteq GroupKeysOf(doc))

\* C12: restore materializes all groups before any role: for a dump in which
\* every name in every role's memberOf is a key of the groups section, restore
\* succeeds whatever the order of the roles and groups sections and of the
\* entries inside them; the restored store has exactly the listed roles and
\* groups and each restored role is a member of exactly the groups its entry
\* lists.
C12_GroupsBeforeRoles ==
    (/\ last.op = "restore"
     /\ last.args.dump \notin MalformedDumps
     /\ ~Dangling(DocOf(last.args.dump)))
        => LET doc == DocOf(last.args.dump)
           IN  /\ ~last.err.thrown
               /\ DOMAIN last.ret.groups = GroupKeysOf(doc)
               /\ DOMAIN last.ret.roles = Keys(Section(doc, "roles"))
               /\ \A i \in DOMAIN RoleEntriesOf(doc) :
                     last.ret.roles[RoleEntriesOf(doc)[i].k].memberOf
                        = ListedGroups(RoleEntriesOf(doc)[i])

\* C12 witness: restore succeeded on a dump that lists its roles section
\* before its groups section, with two roles in two different groups, the
\* groups section listing the groups in the opposite order
C12_Witness ==
    /\ last.op = "restore"
    /\ ~last.err.thrown
    /\ ~IsString(last.args.dump)
    /\ Len(last.args.dump.entries) = 2
    /\ last.args.dump.entries[1].k = "roles"
    /\ LET res == RoleEntriesOf(last.args.dump)
           ges == Section(last.args.dump, "groups").entries
       IN  /\ Len(res) = 2
           /\ Len(ges) = 2
           /\ ListedGroups(res[1]) = {ges[2].k}
           /\ ListedGroups(res[2]) = {ges[1].k}

\* the first role entry of the document that lists a group missing from the
\* groups section, and the first such group in its memberOf array
FirstDangling(doc) ==
    LET res == RoleEntriesOf(doc)
        bad(i) == ~(ListedGroups(res[i]) \subseteq GroupKeysOf(doc))
    IN  res[CHOOSE i \in DOMAIN res : bad(i) /\ \A j \in 1..(i - 1) : ~bad(j)]

FirstMissingListed(doc, e) ==
    LET listed == Field(e.v, "memberOf", <<>>)
        bad(i) == listed[i] \notin GroupKeysOf(doc)
    IN  listed[CHOOSE i \in DOMAIN listed : bad(i) /\ \A j \in 1..(i - 1) : ~bad(j)]

\* C13 (as stated): restoring a dump in which some role's memberOf lists a
\* group name that is not a key of the dump's groups section fails with the
\* same "group not found" error as a live addRole call on a missing group.
C13_SameErrorAsAddRole ==
    (/\ last.op = "restore"
     /\ last.args.dump \notin MalformedDumps
     /\ Dangling(DocOf(last.args.dump)))
        => /\ last.err.thrown
           /\ \E g \in DumpGroupNames : last.err = GroupDoesNotExist(g)

\* C13 (amended): restoring a dump in which some role's memberOf lists a group
\* name that is not a key of the dump's groups section fails and returns no
\* store; the error raised is not addRole's error itself but a new "Unable to
\* restore dump: " error whose message ends with the text of the error a live
\* addRole call raises for the first such role entry (Group 'g' does not
\* exist, g being the first missing group that entry lists).
C13_WrappedGroupError ==
    (/\ last.op = "restore"
     /\ last.args.dump \notin MalformedDumps
     /\ Dangling(DocOf(last.args.dump)))
        => LET doc  == DocOf(last.args.dump)
               e    == FirstDangling(doc)
               live == addRoleResult(EmptyMap,
                                     [g \in GroupKeysOf(doc) |-> NewGroup],
                                     e.k, Field(e.v, "permissions", <<>>),
                                     Field(e.v, "memberOf", <<>>))
           IN  /\ last.err.thrown
               /\ last.ret = Absent
               /\ live.err = GroupDoesNotExist(FirstMissingListed(doc, e))
               /\ last.err = UnableToRestore(live.err)
               /\ last.err # live.err

\* C13 witness: restore failed on a dump whose groups section has a group,
\* whose first role entry is a member of that group and whose second role
\* entry lists a group the dump does not have
C13_Witness ==
    /\ last.op = "restore"
    /\ last.err.thrown
    /\ last.args.dump \notin MalformedDumps
    /\ LET doc == DocOf(last.args.dump)
           res == RoleEntriesOf(doc)
       IN  /\ Len(res) = 2
           /\ ListedGroups(res[1]) # {}
           /\ ListedGroups(res[1]) \subseteq GroupKeysOf(doc)
           /\ ~(ListedGroups(res[2]) \subseteq GroupKeysOf(doc))

\* the step of restore that fails on a dump, if any: parsing text that is not
\* JSON, reading a property of null, adding a role to a missing group
CannotRestore(dumped) ==
    dumped \in MalformedDumps \/ Dangling(DocOf(dumped))

CauseOf(dumped) ==
    IF dumped = NotJson THEN SyntaxError
    ELSE IF dumped \in MalformedDumps THEN TypeError
    ELSE LET doc == DocOf(dumped)
         IN  GroupDoesNotExist(FirstMissingListed(doc, FirstDangling(doc)))

\* C14: restore is all-or-nothing: it fails exactly when one of its steps
\* fails (unparseable text, a null where an object is read, a missing group),
\* and then the call raises one "Unable to restore dump: " error that carries
\* the name and message of the underlying cause and returns no store
\* instance, not even a partially populated one; the store that existed
\* before the call is unchanged.
C14_RestoreAllOrNothing ==
    last.op = "restore"
        => /\ last.err.thrown <=> CannotRestore(last.args.dump)
           /\ last.err.thrown
                => LET cause == CauseOf(last.args.dump)
                   IN  /\ last.err.name = "Error"
                       /\ last.err.message
                            = <<"Unable to restore dump: ", cause.name, ": ">>
                                  \o cause.message
                       /\ last.ret = Absent
           /\ Store = pre
           /\ Store = StoredExample

\* C14 witness: restore failed on its last role entry, after the group and
\* the first role of the dump had been added to the new instance, while the
\* caller holds a store of its own
C14_Witness ==
    /\ last.op = "restore"
    /\ last.err.thrown
    /\ last.ret = Absent
    /\ roles # EmptyMap
    /\ last.args.dump \notin MalformedDumps
    /\ LET doc == DocOf(last.args.dump)
           res == RoleEntriesOf(doc)
       IN  /\ Cardinality(GroupKeysOf(doc)) = 1
           /\ Len(res) = 2
           /\ ListedGroups(res[1]) = GroupKeysOf(doc)
           /\ ~(ListedGroups(res[2]) \subseteq GroupKeysOf(doc))

\* C15: read-path queries are total: in every reachable state getPermissions,
\* hasPermission, hasSomePermission and hasRole for a role name that does not
\* exist, hasGroup for a group name that does not exist, and can (with no rule
\* registered for the permission) for a subject whose role does not exist
\* return the negative result (empty set or false) and raise no error.
C15_QueriesTotal ==
    /\ \A r \in AbacRoleNames \ DOMAIN roles :
          /\ getPermissions(roles, groups, r) = {}
          /\ ~hasRole(roles, r)
          /\ \A p \in Perms : ~hasPermission(roles, groups, r, p)
          /\ \A ps \in PermLists : ~hasSomePermission(roles, groups, r, ps)
    /\ \A g \in AbacGroupNames \ DOMAIN groups : ~hasGroup(groups, g)
    /\ \A c \in AllCans(AbacRoleNames) :
          (c.subject.role \notin DOMAIN roles /\ c.permission \notin DOMAIN rules)
             => CanOf(c) = [ret |-> FALSE, err |-> NoError, ruleCalls |-> <<>>]
    /\ (/\ last.op \in {"getPermissions", "hasPermission", "hasSomePermission"}
        /\ last.args.roleName \notin DOMAIN roles)
          => /\ ~last.err.thrown
             /\ last.ret = IF last.op = "getPermissions" THEN {} ELSE FALSE
    /\ (last.op = "hasRole" /\ last.args.name \notin DOMAIN roles)
          => (~last.err.thrown /\ last.ret = FALSE)
    /\ (last.op = "hasGroup" /\ last.args.name \notin DOMAIN groups)
          => (~last.err.thrown /\ last.ret = FALSE)
    /\ (/\ last.op = "can"
        /\ last.args.subject.role \notin DOMAIN roles
        /\ last.args.permission \notin DOMAIN rules)
          => (~last.err.thrown /\ last.ret = FALSE)

\* C15 witness: can() was asked, in a store that has a group holding the
\* permission and no rule for it, about a subject whose role does not exist
C15_Witness ==
    /\ last.op = "can"
    /\ last.args.subject.role \notin DOMAIN roles
    /\ last.args.permission \notin DOMAIN rules
    /\ \E g \in DOMAIN groups : last.args.permission \in groups[g].permissions
    /\ ~last.err.thrown
    /\ last.ret = FALSE

\* the read-only methods
QueryOps ==
    {"getPermissions", "hasPermission", "hasSomePermission", "can", "hasRole",
     "hasGroup", "getRoles", "getGroups", "hasRule", "getRules", "toJSON", "dump"}

\* C16: queries never mutate the store: after getPermissions, hasPermission,
\* hasSomePermission, can, hasRole, hasGroup, getRoles, getGroups, hasRule,
\* getRules, toJSON or dump the role map, the group map and the rule map are
\* what they were before the call; in particular a role or group that did not
\* exist before a query about it does not exist after it.
C16_QueriesDoNotMutate ==
    last.op \in QueryOps
        => /\ roles = pre.roles
           /\ groups = pre.groups
           /\ rules = pre.rules
           /\ last.op \in {"getPermissions", "hasPermission", "hasSomePermission"}
                => (last.args.roleName \in DOMAIN roles
                        <=> last.args.roleName \in DOMAIN pre.roles)
           /\ last.op = "can"
                => (last.args.subject.role \in DOMAIN roles
                        <=> last.args.subject.role \in DOMAIN pre.roles)
           /\ last.op = "hasRole"
                => (last.args.name \in DOMAIN roles <=> last.args.name \in DOMAIN pre.roles)
           /\ last.op = "hasGroup"
                => (last.args.name \in DOMAIN groups
                        <=> last.args.name \in DOMAIN pre.groups)

\* C16 witness: getPermissions was asked about a role that does not exist, in
\* a store that has a group and a rule, and the role still does not exist
C16_Witness ==
    /\ last.op = "getPermissions"
    /\ last.args.roleName \notin DOMAIN pre.roles
    /\ last.args.roleName \notin DOMAIN roles
    /\ groups # EmptyMap
    /\ rules # EmptyMap

\* what the entity held before the last call (nothing when it did not exist)
PermissionsBefore(map, name) ==
    IF name \in DOMAIN map THEN map[name].permissions ELSE {}

\* C17: adds are idempotent and deduplicating: a successful addRole(r, P, G)
\* leaves r with the permissions and memberships it had plus those listed,
\* each held once however often it is listed or added, and addGroup(g, P)
\* likewise; applying the same successful call again leaves the store as it
\* is, and getPermissions(r) holds each permission once even when r holds it
\* both directly and through one or more groups.
C17_AddsIdempotent ==
    /\ (last.op = "addRole" /\ ~last.err.thrown)
          => LET a == last.args
             IN  /\ roles[a.name].permissions
                      = PermissionsBefore(pre.roles, a.name) \cup Range(a.permissions)
                 /\ roles[a.name].memberOf
                      = MemberOf(pre.roles, a.name) \cup Range(a.groupNames)
                 /\ addRoleResult(roles, groups, a.name, a.permissions, a.groupNames)
                      = [roles |-> roles, err |-> NoError]
                 /\ Cardinality(getPermissions(roles, groups, a.name))
                      = Cardinality(Held(roles, groups, a.name))
    /\ last.op = "addGroup"
          => LET a == last.args
             IN  /\ groups[a.name].permissions
                      = PermissionsBefore(pre.groups, a.name) \cup Range(a.permissions)
                 /\ addGroupResult(groups, a.name, a.permissions) = groups
    /\ \A r \in RoleNames :
          Cardinality(getPermissions(roles, groups, r)) <= Cardinality(Perms)

\* C17 witness: addRole listed twice a permission the role already held both
\* directly and through a group, and the role holds just that permission
C17_Witness ==
    /\ last.op = "addRole"
    /\ ~last.err.thrown
    /\ Len(last.args.permissions) = 2
    /\ last.args.permissions[1] = last.args.permissions[2]
    /\ last.args.name \in DOMAIN pre.roles
    /\ last.args.permissions[1] \in pre.roles[last.args.name].permissions
    /\ \E g \in roles[last.args.name].memberOf :
          last.args.permissions[1] \in groups[g].permissions
    /\ Cardinality(getPermissions(roles, groups, last.args.name)) = 1

\* the tokens stored for role r: its own and those of the groups it is in
Tokens(rs, gs, r) ==
    IF r \notin DOMAIN rs THEN {}
    ELSE rs[r].permissions
            \cup UNION {gs[g].permissions : g \in rs[r].memberOf \cap DOMAIN gs}

\* C18: permission matching is exact: hasPermission(r, p) is true only if the
\* token p itself is among the tokens stored for r or for a group r is in;
\* holding another token, "article:*" included, grants nothing, so a role
\* whose only permissions come from a group holding "article:read" does not
\* have "article:*", and a role holding only "article:*" does not have
\* "article:read".
C18_ExactMatch ==
    /\ \A r \in RoleNames, p \in Perms :
          hasPermission(roles, groups, r, p) => p \in Tokens(roles, groups, r)
    /\ \A r \in RoleNames :
          /\ Tokens(roles, groups, r) = {"article:*"}
                => ~hasPermission(roles, groups, r, "article:read")
          /\ Tokens(roles, groups, r) = {"article:read"}
                => ~hasPermission(roles, groups, r, "article:*")
    /\ last.op = "hasPermission"
          => (last.ret => last.args.permission \in Tokens(roles, groups, last.args.roleName))

\* C18 witness: hasPermission was asked for "article:*" about a role whose
\* only permission, "article:read", comes from a group, and answered false
C18_Witness ==
    /\ last.op = "hasPermission"
    /\ last.args.permission = "article:*"
    /\ last.args.roleName \in DOMAIN roles
    /\ roles[last.args.roleName].permissions = {}
    /\ Tokens(roles, groups, last.args.roleName) = {"article:read"}
    /\ last.ret = FALSE

\* C19: hasSomePermission(r, list) is true if and only if there is a p in
\* list with hasPermission(r, p) true; it is false for the empty list, for a
\* role that does not exist, and when no listed permission is in the resolved
\* set of r.
C19_HasSomePermission ==
    /\ \A r \in AbacRoleNames, ps \in PermLists :
          /\ hasSomePermission(roles, groups, r, ps)
                <=> \E i \in DOMAIN ps : hasPermission(roles, groups, r, ps[i])
          /\ r \notin DOMAIN roles => ~hasSomePermission(roles, groups, r, ps)
          /\ Range(ps) \cap Held(roles, groups, r) = {}
                => ~hasSomePermission(roles, groups, r, ps)
    /\ \A r \in AbacRoleNames : ~hasSomePermission(roles, groups, r, <<>>)
    /\ last.op = "hasSomePermission"
          => last.ret = (Range(last.args.permissions)
                            \cap Held(roles, groups, last.args.roleName) # {})

\* C19 witness: hasSomePermission was called with a list whose first
\* permission the role does not have and whose second it has through a group
C19_Witness ==
    /\ last.op = "hasSomePermission"
    /\ Len(last.args.permissions) = 2
    /\ ~hasPermission(roles, groups, last.args.roleName, last.args.permissions[1])
    /\ last.args.roleName \in DOMAIN roles
    /\ last.args.permissions[2] \notin roles[last.args.roleName].permissions
    /\ hasPermission(roles, groups, last.args.roleName, last.args.permissions[2])
    /\ last.ret = TRUE

\* C20: removeRole(n) deletes the role entirely and has no effect on groups:
\* afterwards hasRole(n) is false and getPermissions(n) is empty, while every
\* group with its permission set, every other role with its permissions and
\* memberships, and every rule are what they were before the call;
\* removeRole of a role that does not exist changes nothing.
C20_RemoveRoleFrame ==
    last.op = "removeRole"
        => LET n == last.args.name
           IN  /\ ~hasRole(roles, n)
               /\ getPermissions(roles, groups, n) = {}
               /\ groups = pre.groups
               /\ rules = pre.rules
               /\ DOMAIN roles = DOMAIN pre.roles \ {n}
               /\ \A r \in DOMAIN roles : roles[r] = pre.roles[r]
               /\ n \notin DOMAIN pre.roles => roles = pre.roles

\* C20 witness: a role holding a permission through a group was removed while
\* another role of the same group and a rule exist
C20_Witness ==
    /\ last.op = "removeRole"
    /\ last.args.name \in DOMAIN pre.roles
    /\ \E g \in pre.roles[last.args.name].memberOf :
          /\ g \in DOMAIN groups
          /\ groups[g].permissions # {}
          /\ \E r \in DOMAIN roles : g \in roles[r].memberOf
    /\ rules # EmptyMap

\* C21: addRoleToGroup(r, g) with an existing group g creates role r if it is
\* absent (with no direct permissions), adds g to r's memberOf and leaves r's
\* direct permissions and other memberships, and the groups, unchanged;
\* immediately afterwards hasPermission(r, p) is true for every permission p
\* of g.
C21_AddRoleToGroup ==
    (last.op = "addRoleToGroup" /\ last.args.groupName \in DOMAIN pre.groups)
        => LET r == last.args.roleName
               g == last.args.groupName
           IN  /\ ~last.err.thrown
               /\ r \in DOMAIN roles
               /\ roles[r].permissions = PermissionsBefore(pre.roles, r)
               /\ roles[r].memberOf = MemberOf(pre.roles, r) \cup {g}
               /\ groups = pre.groups
               /\ \A p \in groups[g].permissions : hasPermission(roles, groups, r, p)

\* C21 witness: a role with a direct permission and a membership was added to
\* a second group that holds a permission the role did not have
C21_Witness ==
    /\ last.op = "addRoleToGroup"
    /\ ~last.err.thrown
    /\ last.args.roleName \in DOMAIN pre.roles
    /\ pre.roles[last.args.roleName].permissions # {}
    /\ pre.roles[last.args.roleName].memberOf
          \notin {{}, {last.args.groupName}}
    /\ \E p \in groups[last.args.groupName].permissions :
          ~hasPermission(pre.roles, pre.groups, last.args.roleName, p)

\* C22: removeRoleFromGroup(r, g) never fails: it changes nothing when role r
\* does not exist (r is not created) or when g is not in r's memberOf (also
\* when g is not a group at all); otherwise it removes only g from r's
\* memberOf, so r still exists, keeps its direct permissions and other
\* memberships, and no longer has the permissions it held only through g.
C22_RemoveRoleFromGroup ==
    last.op = "removeRoleFromGroup"
        => LET r == last.args.roleName
               g == last.args.groupName
           IN  /\ ~last.err.thrown
               /\ groups = pre.groups
               /\ DOMAIN roles = DOMAIN pre.roles
               /\ g \notin MemberOf(pre.roles, r) => roles = pre.roles
               /\ r \in DOMAIN pre.roles
                    => /\ roles[r].permissions = pre.roles[r].permissions
                       /\ roles[r].memberOf = pre.roles[r].memberOf \ {g}
               /\ \A p \in Perms :
                     OnlyThrough(pre, r, p, g) => ~hasPermission(roles, groups, r, p)

\* C22 witness: a role in two groups was removed from one of them and lost a
\* permission it held only through that group
C22_Witness ==
    /\ last.op = "removeRoleFromGroup"
    /\ last.args.roleName \in DOMAIN pre.roles
    /\ Cardinality(pre.roles[last.args.roleName].memberOf) = 2
    /\ last.args.groupName \in pre.roles[last.args.roleName].memberOf
    /\ \E p \in Perms :
          OnlyThrough(pre, last.args.roleName, p, last.args.groupName)

\* C23: removeRolePermissions(n, P) and removeGroupPermissions(n, P) raise no
\* error and change nothing when the named role or group does not exist (it
\* is not created); when it exists they remove from its own permission set
\* exactly the listed permissions, leave its other permissions and (for a
\* role) its memberOf unchanged, and ignore listed permissions it does not
\* hold; every other entity is unchanged.
C23_RemovePermissions ==
    /\ last.op = "removeRolePermissions"
          => LET n == last.args.name
             IN  /\ ~last.err.thrown
                 /\ groups = pre.groups
                 /\ DOMAIN roles = DOMAIN pre.roles
                 /\ n \notin DOMAIN pre.roles => roles = pre.roles
                 /\ n \in DOMAIN pre.roles
                      => /\ roles[n].permissions
                              = pre.roles[n].permissions \ Range(last.args.permissions)
                         /\ roles[n].memberOf = pre.roles[n].memberOf
    /\ last.op = "removeGroupPermissions"
          => LET n == last.args.name
             IN  /\ ~last.err.thrown
                 /\ roles = pre.roles
                 /\ DOMAIN groups = DOMAIN pre.groups
                 /\ n \notin DOMAIN pre.groups => groups = pre.groups
                 /\ \A g \in DOMAIN groups :
                       groups[g].permissions
                          = IF g = n
                            THEN pre.groups[g].permissions \ Range(last.args.permissions)
                            ELSE pre.groups[g].permissions

\* C23 witness: removeRolePermissions listed one permission the role holds
\* and left the other one and the role's membership in place
C23_Witness ==
    /\ last.op = "removeRolePermissions"
    /\ last.args.name \in DOMAIN pre.roles
    /\ pre.roles[last.args.name].memberOf # {}
    /\ Cardinality(pre.roles[last.args.name].permissions) = 2
    /\ Cardinality(roles[last.args.name].permissions) = 1

\* the requests about permission p
CansFor(names, p) == {c \in AllCans(names) : c.permission = p}

\* what rule function f alone decides for request c of a role that holds the
\* permission
DecidedBy(f, c) ==
    LET out == ApplyRule(f, c.subject, c.resource, c.context)
    IN  [ret |-> out.value, err |-> out.err,
         ruleCalls |-> <<RuleCall(f, c.subject, c.resource, c.context)>>]

\* C24: at most one rule is registered per permission and the last write
\* wins: after addRule(p, f), whatever rule was registered for p before,
\* getRules() lists p exactly once, the rules of the other permissions are
\* what they were, and can() for p, when the role holds p, is decided by f
\* only; a can() call invokes at most one rule, the one now registered.
C24_LastRuleWins ==
    /\ last.op = "addRule"
          => LET p == last.args.permission
                 f == last.args.rule
             IN  /\ rules[p] = f
                 /\ Cardinality({i \in DOMAIN getRules(rules) : getRules(rules)[i] = p}) = 1
                 /\ DOMAIN rules = DOMAIN pre.rules \cup {p}
                 /\ \A q \in DOMAIN rules \ {p} : rules[q] = pre.rules[q]
                 /\ roles = pre.roles /\ groups = pre.groups
                 /\ \A c \in CansFor(AbacRoleNames, p) :
                       hasPermission(roles, groups, c.subject.role, p)
                          => CanOf(c) = DecidedBy(f, c)
    /\ last.op = "can"
          => /\ Len(last.ruleCalls) <= 1
             /\ \A i \in DOMAIN last.ruleCalls :
                   /\ last.args.permission \in DOMAIN rules
                   /\ last.ruleCalls[i].fn = rules[last.args.permission]
    /\ Len(getRules(rules)) = Cardinality(DOMAIN rules)

\* C24 witness: addRule replaced the rule of a permission by another one that
\* decides a request of a role holding the permission differently
C24_Witness ==
    /\ last.op = "addRule"
    /\ last.args.permission \in DOMAIN pre.rules
    /\ pre.rules[last.args.permission] # last.args.rule
    /\ \E c \in CansFor(AbacRoleNames, last.args.permission) :
          /\ hasPermission(roles, groups, c.subject.role, c.permission)
          /\ CanOf(c) # CanIn(pre, c)

\* C25: removeRule(p) never fails, also when no rule is registered for p;
\* after it hasRule(p) is false and can(subject, p, resource, context) equals
\* hasPermission(subject.role, p) and calls no rule, so a request that the
\* removed rule denied is granted when the role holds p; the rules registered
\* for other permissions, the roles and the groups are unchanged.
C25_RemoveRule ==
    last.op = "removeRule"
        => LET p == last.args.permission
           IN  /\ ~last.err.thrown
               /\ ~hasRule(rules, p)
               /\ DOMAIN rules = DOMAIN pre.rules \ {p}
               /\ \A q \in DOMAIN rules : rules[q] = pre.rules[q]
               /\ roles = pre.roles /\ groups = pre.groups
               /\ \A c \in CansFor(AbacRoleNames, p) :
                     CanOf(c) = [ret |-> hasPermission(roles, groups, c.subject.role, p),
                                 err |-> NoError, ruleCalls |-> <<>>]

\* C25 witness: a rule was removed while another permission keeps its rule,
\* and a request the removed rule denied is now granted
C25_Witness ==
    /\ last.op = "removeRule"
    /\ last.args.permission \in DOMAIN pre.rules
    /\ rules # EmptyMap
    /\ \E c \in CansFor(AbacRoleNames, last.args.permission) :
          /\ ~CanIn(pre, c).err.thrown
          /\ ~CanIn(pre, c).ret
          /\ CanOf(c).ret

\* C28: rule errors are not caught by the engine: when the role holds
\* permission p and the rule registered for p raises, can() raises that same
\* error to the caller, unwrapped, returns neither true nor false, and leaves
\* the store unchanged.
C28_RuleErrorPropagates ==
    (/\ last.op = "can"
     /\ hasPermission(pre.roles, pre.groups, last.args.subject.role, last.args.permission)
     /\ last.args.permission \in DOMAIN pre.rules
     /\ ApplyRule(pre.rules[last.args.permission], last.args.subject,
                  last.args.resource, last.args.context).err.thrown)
        => /\ last.err = ApplyRule(pre.rules[last.args.permission], last.args.subject,
                                   last.args.resource, last.args.context).err
           /\ last.err = RuleThrew
           /\ last.ret = Absent
           /\ Store = pre

\* C28 witness: can() was called for a permission the role holds through a
\* group and whose rule raises
C28_Witness ==
    /\ last.op = "can"
    /\ last.err.thrown
    /\ last.args.subject.role \in DOMAIN roles
    /\ last.args.permission \notin roles[last.args.subject.role].permissions
    /\ rules[last.args.permission] = "throws"

\* the strings listed under field k of dump entry o, none when o has no such
\* field
ListedUnder(o, k) == IF Has(o, k) THEN Range(Get(o, k)) ELSE {}

\* C27: inner dump fields are optional on restore: whenever restore succeeds,
\* every group entry is restored as an existing group holding the permissions
\* its entry lists, none when the entry has no "permissions"; every role entry
\* is restored as an existing role with the direct permissions and memberships
\* its entry lists, none when the field is missing; an empty-object entry
\* restores an entity that exists and grants nothing.
C27_OptionalFields ==
    (last.op = "restore" /\ ~last.err.thrown)
        => LET doc == DocOf(last.args.dump)
               ges == Section(doc, "groups").entries
               res == RoleEntriesOf(doc)
           IN  /\ \A i \in DOMAIN ges :
                     /\ hasGroup(last.ret.groups, ges[i].k)
                     /\ last.ret.groups[ges[i].k].permissions
                           = ListedUnder(ges[i].v, "permissions")
               /\ \A i \in DOMAIN res :
                     /\ hasRole(last.ret.roles, res[i].k)
                     /\ last.ret.roles[res[i].k].permissions
                           = ListedUnder(res[i].v, "permissions")
                     /\ last.ret.roles[res[i].k].memberOf
                           = ListedUnder(res[i].v, "memberOf")
                     /\ res[i].v = Obj(<<>>)
                           => getPermissions(last.ret.roles, last.ret.groups, res[i].k) = {}

\* C27 witness: restore succeeded on a dump with an empty-object group entry,
\* an empty-object role entry and a role entry that has only a memberOf
\* naming that group
C27_Witness ==
    /\ last.op = "restore"
    /\ ~last.err.thrown
    /\ LET doc == DocOf(last.args.dump)
           ges == Section(doc, "groups").entries
           res == RoleEntriesOf(doc)
       IN  /\ \E i \in DOMAIN ges :
                /\ ges[i].v = Obj(<<>>)
                /\ \E j \in DOMAIN res :
                      /\ ~Has(res[j].v, "permissions")
                      /\ ListedUnder(res[j].v, "memberOf") = {ges[i].k}
           /\ \E j \in DOMAIN res : res[j].v = Obj(<<>>)

\* C30: a failing addRole does not roll back what it did before the failure:
\* when addRole(name, permissions, groupNames) fails because a named group is
\* missing, the role exists afterwards (created if it was absent) and holds
\* every direct permission listed in the call in addition to what it held
\* before; it has lost no membership and the groups are unchanged.
C30_NoRollback ==
    (last.op = "addRole" /\ last.err.thrown)
        => LET n == last.args.name
           IN  /\ \E g \in Range(last.args.groupNames) \ DOMAIN pre.groups :
                     last.err = GroupDoesNotExist(g)
               /\ n \in DOMAIN roles
               /\ roles[n].permissions
                     = PermissionsBefore(pre.roles, n) \cup Range(last.args.permissions)
               /\ MemberOf(pre.roles, n) \subseteq roles[n].memberOf
               /\ groups = pre.groups

\* C30 witness: addRole failed on a missing group for a role that did not
\* exist, and the role now exists and holds the listed permission
C30_Witness ==
    /\ last.op = "addRole"
    /\ last.err.thrown
    /\ last.args.name \notin DOMAIN pre.roles
    /\ last.args.name \in DOMAIN roles
    /\ roles[last.args.name].permissions # {}

\* C26: getPermissions returns a snapshot that shares no state with the
\* store: adding to or deleting from the Set it returns changes neither the
\* role's direct permissions nor any group's permissions nor the result of
\* any later getPermissions or
\* hasPermission call, also when the role has no group memberships or no
\* direct permissions.
C26_Snapshot ==
    last.op = "mutateReturned"
        => /\ roles = pre.roles
           /\ groups = pre.groups
           /\ \A r \in AbacRoleNames :
                 /\ getPermissions(roles, groups, r)
                       = getPermissions(pre.roles, pre.groups, r)
                 /\ \A p \in Perms :
                       hasPermission(roles, groups, r, p)
                          <=> hasPermission(pre.roles, pre.groups, r, p)

\* C26 witness: the caller added to the Set returned for a role without group
\* memberships a permission the role does not hold, and the role still does
\* not hold it
C26_Witness ==
    /\ last.op = "mutateReturned"
    /\ last.args.kind = "add"
    /\ last.args.roleName \in DOMAIN roles
    /\ roles[last.args.roleName].memberOf = {}
    /\ roles[last.args.roleName].permissions # {}
    /\ last.args.permission \in last.ret
    /\ ~hasPermission(roles, groups, last.args.roleName, last.args.permission)

\* C29: store instances are independent: the store returned by restore
\* shares no state with the store that produced the dump, so a mutator call
\* on the original (role, group, membership or rule) leaves the roles, groups
\* and rules of the restored instance, hence every query result on it,
\* unchanged, and a mutator call on the restored instance leaves those of the
\* original unchanged.
C29_Independent ==
    /\ last.op = "mutateOriginal"
          => /\ last.ret.roles = last.before.roles
             /\ last.ret.groups = last.before.groups
             /\ last.ret.rules = last.before.rules
    /\ last.op = "mutateRestored"
          => /\ roles = pre.roles
             /\ groups = pre.groups
             /\ rules = pre.rules

\* C29 witness: with a store that has a role, a group and a rule, a mutator
\* call changed the restored instance, which now differs from the store
C29_Witness ==
    /\ last.op = "mutateRestored"
    /\ last.ret # last.before
    /\ roles # EmptyMap /\ groups # EmptyMap /\ rules # EmptyMap
    /\ last.ret.roles # roles

RuleOps == {"addRule", "removeRule"}

EntityOps ==
    {"addRole", "removeRole", "removeRolePermissions", "addGroup", "removeGroup",
     "removeGroupPermissions", "addRoleToGroup", "removeRoleFromGroup"}

\* some role or group of the store holds permission p
HeldSomewhere(st, p) ==
    \/ \E r \in DOMAIN st.roles : p \in st.roles[r].permissions
    \/ \E g \in DOMAIN st.groups : p \in st.groups[g].permissions

\* C31: the rule lifecycle is independent of roles and groups: addRule and
\* removeRule change no role, group or membership and no result of
\* getPermissions / hasPermission / hasSomePermission, and no role or group
\* mutation (successful or failing) changes the rule map, so a rule for p
\* stays registered when the last role or group holding p is removed.
C31_RuleLifecycle ==
    /\ last.op \in RuleOps
          => /\ roles = pre.roles
             /\ groups = pre.groups
             /\ \A r \in AbacRoleNames :
                   /\ getPermissions(roles, groups, r)
                          = getPermissions(pre.roles, pre.groups, r)
                   /\ \A p \in Perms :
                         hasPermission(roles, groups, r, p)
                             <=> hasPermission(pre.roles, pre.groups, r, p)
                   /\ \A ps \in PermLists :
                         hasSomePermission(roles, groups, r, ps)
                             <=> hasSomePermission(pre.roles, pre.groups, r, ps)
    /\ last.op \in EntityOps => rules = pre.rules
    /\ \A p \in DOMAIN pre.rules :
          (last.op \in {"removeRole", "removeGroup"} /\ ~HeldSomewhere(Store, p))
              => p \in DOMAIN rules

\* C31 witness: a removal took away the last holder of a permission that has
\* a rule
C31_Witness ==
    /\ last.op \in {"removeRole", "removeGroup"}
    /\ \E p \in DOMAIN rules :
          /\ HeldSomewhere(pre, p)
          /\ ~HeldSomewhere(Store, p)

\* a dump object, with entries that are objects, that has no "roles" or no
\* "groups" property
PartialDump(dumped) ==
    /\ ~IsString(dumped)
    /\ dumped \notin MalformedDumps
    /\ ~Has(dumped, "roles") \/ ~Has(dumped, "groups")

\* C32 (as stated): restore accepts a partial dump object: a dump that omits
\* the "roles" section, the "groups" section, or both is restored without
\* error into a store that has no entities of the omitted kind.
C32_PartialAccepted ==
    (last.op = "restore" /\ PartialDump(last.args.dump))
        => /\ ~last.err.thrown
           /\ ~Has(last.args.dump, "roles") => last.ret.roles = EmptyMap
           /\ ~Has(last.args.dump, "groups") => last.ret.groups = EmptyMap

\* C32 (amended): omitting a section is never itself an error: a dump object
\* that omits "roles", "groups" or both fails exactly when "groups" is
\* omitted and some role entry lists a group in its memberOf (the group
\* cannot exist); otherwise it is restored without error into a store that
\* has no entities of the omitted kind and exactly the listed entities of
\* the other kind.
C32_PartialUnlessDangling ==
    (last.op = "restore" /\ PartialDump(last.args.dump))
        => LET doc == last.args.dump
           IN  /\ last.err.thrown
                     <=> /\ ~Has(doc, "groups")
                         /\ \E i \in DOMAIN RoleEntriesOf(doc) :
                               ListedGroups(RoleEntriesOf(doc)[i]) # {}
               /\ ~last.err.thrown
                     => /\ ~Has(doc, "roles") => last.ret.roles = EmptyMap
                        /\ ~Has(doc, "groups") => last.ret.groups = EmptyMap
                        /\ DOMAIN last.ret.roles
                              = {RoleEntriesOf(doc)[i].k : i \in DOMAIN RoleEntriesOf(doc)}
                        /\ DOMAIN last.ret.groups = GroupKeysOf(doc)

\* C32 witness: a dump object with a role entry and no "groups" was restored
\* into a store with that role and no group
C32_Witness ==
    /\ last.op = "restore"
    /\ PartialDump(last.args.dump)
    /\ ~Has(last.args.dump, "groups")
    /\ ~last.err.thrown
    /\ last.ret.roles # EmptyMap
    /\ last.ret.groups = EmptyMap

\* C33: no dangling membership: in every state reachable by any sequence of
\* operations (failing addRole and addRoleToGroup calls and removeGroup
\* included), every name in every role's memberOf is the name of a group
\* that exists.
C33_NoDanglingMembership ==
    \A r \in DOMAIN roles : roles[r].memberOf \subseteq DOMAIN groups

\* C33 witness: a group that had a member was removed and the role remains,
\* or an addRole call failed after it had added a membership
C33_Witness ==
    \/ /\ last.op = "removeGroup"
       /\ \E r \in DOMAIN roles : last.args.name \in pre.roles[r].memberOf
    \/ /\ last.op = "addRole"
       /\ last.err.thrown
       /\ MemberOf(roles, last.args.name) # MemberOf(pre.roles, last.args.name)

\* C34 (as stated): a dump of a live store is always restorable: for every
\* reachable store, restoring its dump() text or its toJSON() object does not
\* raise.
C34_DumpRestorable ==
    (last.op = "restore" /\ last.args.dump \in DumpsOfStore) => ~last.err.thrown

\* the permissions role r holds directly or through a group other than g
HeldWithout(rs, gs, r, g) ==
    rs[r].permissions
        \cup UNION {gs[h].permissions : h \in (rs[r].memberOf \ {g}) \cap DOMAIN gs}

\* removeGroup(g) has run and the next call is addGroup(g, P)
Recreates ==
    /\ last.op = "removeGroup"
    /\ last'.op = "addGroup"
    /\ last'.args.name = last.args.name

\* C35: membership does not survive group removal: when removeGroup(g) is
\* followed by addGroup(g, P), a role that was a member of g before the
\* removal is not a member of the re-created g and holds exactly what it holds
\* directly or through its other groups; and only addRole and addRoleToGroup
\* ever add a membership, so this lasts until the role is added to g again.
C35_MembershipNotRevived ==
    [][/\ Recreates
          => LET g == last.args.name
             IN  \A r \in DOMAIN pre.roles :
                    g \in pre.roles[r].memberOf
                        => /\ r \in DOMAIN roles'
                           /\ g \in DOMAIN groups'
                           /\ g \notin roles'[r].memberOf
                           /\ getPermissions(roles', groups', r)
                                  = HeldWithout(roles', groups', r, g)
       /\ last'.op \notin {"addRole", "addRoleToGroup"}
          => \A r \in DOMAIN roles' : MemberOf(roles', r) \subseteq MemberOf(roles, r)
      ]_vars

\* C35 witness: removeGroup took a group with a permission away from a role
\* that held the permission only through it, the role remains, and
\* addGroup of the same name with that permission is the next call
C35_Witness ==
    /\ last.op = "removeGroup"
    /\ \E r \in DOMAIN roles :
          /\ last.args.name \in pre.roles[r].memberOf
          /\ "article:read" \in pre.groups[last.args.name].permissions
          /\ ~hasPermission(roles, groups, r, "article:read")
    /\ ENABLED (addGroup(last.args.name, <<"article:read">>) /\ Recreates)

\* some group role r is a member of, other than `except`, holds p in store st
ThroughGroup(st, r, p, except) ==
    \E h \in (st.roles[r].memberOf \ except) \cap DOMAIN st.groups :
        p \in st.groups[h].permissions

\* C36: direct and inherited grants are revoked separately: after
\* removeRolePermissions(r, [.. p ..]) hasPermission(r, p) is true exactly
\* when a group r is a member of held p before the call; after
\* removeGroupPermissions(g, [.. p ..]) hasPermission(r, p) for a member r of
\* g is true exactly when r held p directly or through another group before
\* the call; so the answer becomes false only when no source of p remains.
C36_SeparateRevocation ==
    /\ (last.op = "removeRolePermissions" /\ last.args.name \in DOMAIN pre.roles)
          => \A p \in Range(last.args.permissions) :
                hasPermission(roles, groups, last.args.name, p)
                    <=> ThroughGroup(pre, last.args.name, p, {})
    /\ (last.op = "removeGroupPermissions" /\ last.args.name \in DOMAIN pre.groups)
          => \A r \in DOMAIN pre.roles, p \in Range(last.args.permissions) :
                last.args.name \in pre.roles[r].memberOf
                    => (hasPermission(roles, groups, r, p)
                           <=> \/ p \in pre.roles[r].permissions
                               \/ ThroughGroup(pre, r, p, {last.args.name}))

\* C36 witness: a permission was removed from a group whose member still
\* holds it through another group and not directly
C36_Witness ==
    /\ last.op = "removeGroupPermissions"
    /\ \E r \in DOMAIN roles, p \in Range(last.args.permissions) :
          /\ last.args.name \in roles[r].memberOf
          /\ p \in pre.groups[last.args.name].permissions
          /\ p \notin roles[r].permissions
          /\ hasPermission(roles, groups, r, p)

\* C37: a removed role leaves nothing behind: removeRole(n) leaves no role n,
\* no call other than addRole and addRoleToGroup brings a role into being,
\* and addRole(n, P, G) or addRoleToGroup(n, g) on an absent n creates a role
\* whose direct permissions are exactly P (or none) and whose memberOf is
\* exactly G (or {g}; for an addRole call that throws, the groups of G added
\* before the throw), so nothing the role had before its removal reappears.
C37_RemovedRoleIsFresh ==
    [][/\ last'.op = "removeRole" => last'.args.name \notin DOMAIN roles'
       /\ last'.op \notin {"addRole", "addRoleToGroup"}
             => DOMAIN roles' \subseteq DOMAIN roles
       /\ (last'.op = "addRole" /\ last'.args.name \notin DOMAIN roles)
             => LET n == last'.args.name
                IN  /\ n \in DOMAIN roles'
                    /\ roles'[n].permissions = Range(last'.args.permissions)
                    /\ roles'[n].memberOf \subseteq Range(last'.args.groupNames)
                    /\ ~last'.err.thrown
                          => roles'[n].memberOf = Range(last'.args.groupNames)
       /\ (last'.op = "addRoleToGroup" /\ last'.args.roleName \notin DOMAIN roles)
             => LET n == last'.args.roleName
                IN  IF last'.err.thrown THEN n \notin DOMAIN roles'
                    ELSE roles'[n] = [permissions |-> {},
                                      memberOf |-> {last'.args.groupName}]
      ]_vars

\* C37 witness: a role with a direct permission and a membership was removed,
\* and addRole of the same name with another permission and no group is the
\* next call
C37_Witness ==
    /\ last.op = "removeRole"
    /\ last.args.name \in DOMAIN pre.roles
    /\ "article:read" \in pre.roles[last.args.name].permissions
    /\ pre.roles[last.args.name].memberOf # {}
    /\ ENABLED (/\ addRole(last.args.name, <<"article:*">>, <<>>)
                /\ roles'[last.args.name]
                      = [permissions |-> {"article:*"}, memberOf |-> {}])

RoleTargetOps ==
    {"addRole", "removeRolePermissions", "removeRole", "addRoleToGroup",
     "removeRoleFromGroup"}

GroupTargetOps == {"addGroup", "removeGroupPermissions", "removeGroup"}

\* the role a role-targeting call names
TargetRole(call) ==
    IF call.op \in {"addRoleToGroup", "removeRoleFromGroup"}
    THEN call.args.roleName ELSE call.args.name

\* C38: mutations are local: a call targeting role r (addRole,
\* removeRolePermissions, removeRole, addRoleToGroup, removeRoleFromGroup)
\* leaves getPermissions(r') unchanged for every other role r' and changes no
\* group; a call targeting group g (addGroup, removeGroupPermissions,
\* removeGroup) leaves getPermissions(r') unchanged for every role r' that is
\* not a member of g, changes no other group, no role's direct permissions
\* and not which roles exist.
C38_LocalMutations ==
    /\ last.op \in RoleTargetOps
          => /\ groups = pre.groups
             /\ \A r \in PairRoleNames \ {TargetRole(last)} :
                   getPermissions(roles, groups, r)
                       = getPermissions(pre.roles, pre.groups, r)
    /\ last.op \in GroupTargetOps
          => LET g == last.args.name
             IN  /\ \A r \in PairRoleNames :
                       g \notin MemberOf(pre.roles, r)
                           => getPermissions(roles, groups, r)
                                  = getPermissions(pre.roles, pre.groups, r)
                 /\ DOMAIN groups \ {g} = DOMAIN pre.groups \ {g}
                 /\ \A h \in DOMAIN groups \ {g} : groups[h] = pre.groups[h]
                 /\ DOMAIN roles = DOMAIN pre.roles
                 /\ \A r \in DOMAIN roles :
                       roles[r].permissions = pre.roles[r].permissions

\* C38 witness: a group was removed from under a member that held a
\* permission only through it, while the other role, in the other group,
\* holds what it held
C38_Witness ==
    /\ last.op = "removeGroup"
    /\ \E r, o \in DOMAIN roles :
          /\ r # o
          /\ last.args.name \in pre.roles[r].memberOf
          /\ getPermissions(roles, groups, r)
                 # getPermissions(pre.roles, pre.groups, r)
          /\ last.args.name \notin pre.roles[o].memberOf
          /\ roles[o].memberOf # {}
          /\ getPermissions(roles, groups, o) # roles[o].permissions

\* C39: roles and groups live in separate namespaces: a role and a group may
\* have the same name n; creating, changing or removing a group named n never
\* changes hasRole(n) or the direct permissions of role n; a call on role n
\* never changes hasGroup(n); and role n holds a permission of group n only
\* if it holds it directly or is a member of a group that holds it.
C39_SeparateNamespaces ==
    /\ last.op \in GroupTargetOps
          => LET n == last.args.name
             IN  /\ hasRole(roles, n) <=> hasRole(pre.roles, n)
                 /\ PermissionsBefore(roles, n) = PermissionsBefore(pre.roles, n)
    /\ last.op \in RoleTargetOps
          => (hasGroup(groups, TargetRole(last))
                 <=> hasGroup(pre.groups, TargetRole(last)))
    /\ \A n \in DOMAIN roles \cap DOMAIN groups :
          \A p \in groups[n].permissions :
              hasPermission(roles, groups, n, p)
                  => \/ p \in roles[n].permissions
                     \/ ThroughGroup(Store, n, p, {})

\* C39 witness: a role and a group have the same name, the role is not a
\* member of the group and lacks a permission the group holds
C39_Witness ==
    \E n \in DOMAIN roles \cap DOMAIN groups :
        /\ n \notin roles[n].memberOf
        /\ \E p \in groups[n].permissions : ~hasPermission(roles, groups, n, p)

=============================================================================
